---- MODULE Spec2Model ----
(***************************************************************************)
(* Decline-curve segment algebra of pod2co/decline-curve-analysis.         *)
(*                                                                         *)
(* The crate is a pure f64 kernel: validation predicates, six segment      *)
(* models with their "solve-for" constructors, and the evaluators.  An     *)
(* f64 is modelled as a binary floating-point number with the exponent     *)
(* range of binary64, signed zeros, infinities and NaN, round-to-nearest   *)
(* ties-to-even, and a significand of PrecisionBits bits.                  *)
(*                                                                         *)
(* The `?` of Rust is the operator Try.                                    *)
(***************************************************************************)
EXTENDS Integers, Sequences, FiniteSets, TLC

(***************************************************************************)
(* f64: representation                                                     *)
(***************************************************************************)

\* Width of the significand the model carries (binary64 carries 53).
PrecisionBits == 12

\* Terms kept by the series that stand for the libm kernels (exp, ln).
SeriesTerms == 8

\* Exponent of the unit in the last place of the smallest subnormal.
EMin == -1074

\* Largest exponent of the unit in the last place of a finite value.
EMax == 1024 - PrecisionBits

NaN == [k |-> "nan", s |-> 0, m |-> 0, e |-> 0]

Inf(s) == [k |-> "inf", s |-> s, m |-> 0, e |-> 0]

Zero(s) == [k |-> "fin", s |-> s, m |-> 0, e |-> 0]

\* Number of bits of n, 0 <= n < 2^30.
BitLen(n) == CHOOSE k \in 0..30 : n < 2^k /\ (k = 0 \/ n >= 2^(k - 1))

\* M \div 2^sh rounded to the nearest integer, ties to even (M * 2^-sh when
\* sh <= 0).
RoundShift(M, sh) ==
    IF sh <= 0 THEN M * 2^(0 - sh)
    ELSE IF sh > 30 THEN 0
    ELSE IF 2 * (M % 2^sh) > 2^sh \/ (2 * (M % 2^sh) = 2^sh /\ (M \div 2^sh) % 2 = 1)
         THEN (M \div 2^sh) + 1
    ELSE M \div 2^sh

\* The f64 (-1)^s * m * 2^e of a rounded significand m <= 2^PrecisionBits:
\* carried when the rounding has grown m by a bit, infinite on overflow.
RoundPack(s, m, e) ==
    IF m = 2^PrecisionBits
    THEN (IF e + 1 > EMax THEN Inf(s)
          ELSE [k |-> "fin", s |-> s, m |-> 2^(PrecisionBits - 1), e |-> e + 1])
    ELSE IF e > EMax THEN Inf(s)
    ELSE IF m = 0 THEN Zero(s)
    ELSE [k |-> "fin", s |-> s, m |-> m, e |-> e]

\* The f64 nearest to (-1)^s * M * 2^E (ties to even), 0 <= M < 2^30:
\* normal, subnormal, zero on underflow, infinite on overflow.
Round(s, M, E) ==
    LET e == IF E + BitLen(M) - PrecisionBits < EMin THEN EMin
             ELSE E + BitLen(M) - PrecisionBits
    IN  IF M = 0 THEN Zero(s) ELSE RoundPack(s, RoundShift(M, e - E), e)

\* An integer literal as f64.
FromInt(n) == Round(IF n < 0 THEN 1 ELSE 0, IF n < 0 THEN 0 - n ELSE n, 0)

\* The literal n * 2^e as f64.
Dyadic(n, e) == Round(IF n < 0 THEN 1 ELSE 0, IF n < 0 THEN 0 - n ELSE n, e)

is_nan(x) == x.k = "nan"

is_finite(x) == x.k = "fin"

is_infinite(x) == x.k = "inf"

is_sign_negative(x) == x.s = 1

is_sign_positive(x) == x.s = 0

IsZero(x) == x.k = "fin" /\ x.m = 0

FNeg(x) == IF is_nan(x) THEN NaN ELSE [x EXCEPT !.s = 1 - x.s]

abs(x) == IF is_nan(x) THEN NaN ELSE [x EXCEPT !.s = 0]

(***************************************************************************)
(* f64: comparison.  Every comparison with NaN is false; -0 equals +0.     *)
(***************************************************************************)

\* Order of the magnitudes of two finite values: -1, 0 or 1.
MagCmp(a, b) ==
    IF a.m = 0 THEN (IF b.m = 0 THEN 0 ELSE -1)
    ELSE IF b.m = 0 THEN 1
    ELSE IF a.e < b.e THEN -1
    ELSE IF a.e > b.e THEN 1
    ELSE IF a.m < b.m THEN -1
    ELSE IF a.m > b.m THEN 1
    ELSE 0

\* Order of two values that are not NaN: -1, 0 or 1.
Cmp(a, b) ==
    IF is_infinite(a)
    THEN (IF is_infinite(b) /\ a.s = b.s THEN 0 ELSE IF a.s = 1 THEN -1 ELSE 1)
    ELSE IF is_infinite(b) THEN (IF b.s = 1 THEN 1 ELSE -1)
    ELSE IF a.m = 0 /\ b.m = 0 THEN 0
    ELSE IF a.s # b.s THEN (IF a.s = 1 THEN -1 ELSE 1)
    ELSE IF a.s = 0 THEN MagCmp(a, b)
    ELSE MagCmp(b, a)

FLt(a, b) == ~is_nan(a) /\ ~is_nan(b) /\ Cmp(a, b) < 0

FLe(a, b) == ~is_nan(a) /\ ~is_nan(b) /\ Cmp(a, b) <= 0

FGt(a, b) == ~is_nan(a) /\ ~is_nan(b) /\ Cmp(a, b) > 0

FGe(a, b) == ~is_nan(a) /\ ~is_nan(b) /\ Cmp(a, b) >= 0

FEq(a, b) == ~is_nan(a) /\ ~is_nan(b) /\ Cmp(a, b) = 0

(***************************************************************************)
(* f64: arithmetic, correctly rounded                                      *)
(***************************************************************************)

XorSign(a, b) == IF a = b THEN 0 ELSE 1

\* M * 2^E with M shifted left to exactly `bits` bits (M > 0).
NormM(M, bits) == M * 2^(bits - BitLen(M))

NormE(M, E, bits) == E - (bits - BitLen(M))

\* M \div 2^d with every bit shifted out kept as one sticky bit below.
ShiftSticky(M, d) ==
    IF d > 29 THEN 1
    ELSE 2 * (M \div 2^d) + (IF M % 2^d # 0 THEN 1 ELSE 0)

\* (-1)^sh * nh * 2^xh + (-1)^sl * nl * 2^xl, rounded once, for 28-bit nh and
\* nl with nh * 2^xh the larger magnitude.
AddOrdered(sh, nh, xh, sl, nl, xl) ==
    IF sh # sl /\ 2 * nh = ShiftSticky(nl, xh - xl) THEN Zero(0)
    ELSE Round(sh,
               IF sh = sl THEN 2 * nh + ShiftSticky(nl, xh - xl)
               ELSE 2 * nh - ShiftSticky(nl, xh - xl),
               xh - 1)

\* (-1)^s1 * M1 * 2^E1 + (-1)^s2 * M2 * 2^E2, rounded once (0 < M1, M2 < 2^26).
AddExact(s1, M1, E1, s2, M2, E2) ==
    IF \/ NormE(M1, E1, 28) > NormE(M2, E2, 28)
       \/ (NormE(M1, E1, 28) = NormE(M2, E2, 28) /\ NormM(M1, 28) >= NormM(M2, 28))
    THEN AddOrdered(s1, NormM(M1, 28), NormE(M1, E1, 28),
                    s2, NormM(M2, 28), NormE(M2, E2, 28))
    ELSE AddOrdered(s2, NormM(M2, 28), NormE(M2, E2, 28),
                    s1, NormM(M1, 28), NormE(M1, E1, 28))

FAdd(a, b) ==
    IF is_nan(a) \/ is_nan(b) THEN NaN
    ELSE IF is_infinite(a)
         THEN (IF is_infinite(b) /\ a.s # b.s THEN NaN ELSE a)
    ELSE IF is_infinite(b) THEN b
    ELSE IF a.m = 0 /\ b.m = 0 THEN (IF a.s = b.s THEN a ELSE Zero(0))
    ELSE IF a.m = 0 THEN b
    ELSE IF b.m = 0 THEN a
    ELSE AddExact(a.s, a.m, a.e, b.s, b.m, b.e)

FSub(a, b) == FAdd(a, FNeg(b))

FMul(a, b) ==
    IF is_nan(a) \/ is_nan(b) THEN NaN
    ELSE IF is_infinite(a) \/ is_infinite(b)
         THEN (IF IsZero(a) \/ IsZero(b) THEN NaN ELSE Inf(XorSign(a.s, b.s)))
    ELSE Round(XorSign(a.s, b.s), a.m * b.m, a.e + b.e)

FDiv(a, b) ==
    LET \* the significands, the dividend scaled up for the guard bits
        num == NormM(a.m, PrecisionBits) * 2^(PrecisionBits + 3)
        nb  == NormM(b.m, PrecisionBits)
    IN  IF is_nan(a) \/ is_nan(b) THEN NaN
        ELSE IF is_infinite(a)
             THEN (IF is_infinite(b) THEN NaN ELSE Inf(XorSign(a.s, b.s)))
        ELSE IF is_infinite(b) THEN Zero(XorSign(a.s, b.s))
        ELSE IF b.m = 0
             THEN (IF a.m = 0 THEN NaN ELSE Inf(XorSign(a.s, b.s)))
        ELSE IF a.m = 0 THEN Zero(XorSign(a.s, b.s))
        ELSE Round(XorSign(a.s, b.s),
                   2 * (num \div nb) + (IF num % nb # 0 THEN 1 ELSE 0),
                   NormE(a.m, a.e, PrecisionBits) - NormE(b.m, b.e, PrecisionBits)
                       - PrecisionBits - 4)

\* f64::mul_add: a * b + c with a single rounding.
mul_add(a, b, c) ==
    IF is_nan(a) \/ is_nan(b) \/ is_nan(c) THEN NaN
    ELSE IF is_infinite(a) \/ is_infinite(b)
         THEN (IF IsZero(a) \/ IsZero(b) THEN NaN
               ELSE IF is_infinite(c) /\ c.s # XorSign(a.s, b.s) THEN NaN
               ELSE Inf(XorSign(a.s, b.s)))
    ELSE IF is_infinite(c) THEN c
    ELSE IF a.m = 0 \/ b.m = 0
         THEN (IF c.m # 0 \/ c.s = XorSign(a.s, b.s) THEN c ELSE Zero(0))
    ELSE IF c.m = 0 THEN Round(XorSign(a.s, b.s), a.m * b.m, a.e + b.e)
    ELSE AddExact(XorSign(a.s, b.s), a.m * b.m, a.e + b.e, c.s, c.m, c.e)

\* f64::powi(2)
powi2(x) == FMul(x, x)

RECURSIVE ISqrtIn(_, _, _)
\* The integer r with lo <= r < hi and r^2 <= n < (r + 1)^2.
ISqrtIn(n, lo, hi) ==
    IF hi - lo <= 1 THEN lo
    ELSE IF ((lo + hi) \div 2) * ((lo + hi) \div 2) <= n
         THEN ISqrtIn(n, (lo + hi) \div 2, hi)
    ELSE ISqrtIn(n, lo, (lo + hi) \div 2)

\* f64::sqrt
sqrt(x) ==
    LET n0 == NormM(x.m, PrecisionBits) * 2^(PrecisionBits + 2)
        x0 == NormE(x.m, x.e, PrecisionBits) - PrecisionBits - 2
        \* n * 2^xe with xe even
        n  == IF x0 % 2 = 0 THEN n0 ELSE 2 * n0
        xe == IF x0 % 2 = 0 THEN x0 ELSE x0 - 1
        \* floor(sqrt(n)) with the remainder as a sticky bit
        Rooted(r) == Round(0, 2 * r + (IF r * r # n THEN 1 ELSE 0), (xe \div 2) - 1)
    IN  IF is_nan(x) THEN NaN
        ELSE IF IsZero(x) THEN x
        ELSE IF is_sign_negative(x) THEN NaN
        ELSE IF is_infinite(x) THEN x
        ELSE Rooted(ISqrtIn(n, 0, 2^15))

(***************************************************************************)
(* f64: the libm functions the crate calls.  Each is computed to the       *)
(* model's precision from a range reduction and a truncated series, with   *)
(* the IEEE 754 / C99 special cases (signed zeros, infinities, NaN, domain  *)
(* errors) answered exactly.                                               *)
(***************************************************************************)

\* 1.0
One == [k |-> "fin", s |-> 0, m |-> 2^(PrecisionBits - 1), e |-> 1 - PrecisionBits]

\* 2.0
Two == [k |-> "fin", s |-> 0, m |-> 2^(PrecisionBits - 1), e |-> 2 - PrecisionBits]

\* -1.0
MinusOne == [k |-> "fin", s |-> 1, m |-> 2^(PrecisionBits - 1), e |-> 1 - PrecisionBits]

\* ln 2 in units of 2^-20.
Ln2Fixed == 726817

Ln2 == Round(0, Ln2Fixed, -20)

\* Position of the leading bit of a finite non-zero x: |x| < 2^MagBits(x).
MagBits(x) == x.e + BitLen(x.m)

\* floor(x * 2^20) for a finite x with 2^-28 < |x| < 2^10.
Fixed20(x) ==
    IF x.e + 20 >= 0 THEN (IF x.s = 1 THEN 0 - x.m * 2^(x.e + 20) ELSE x.m * 2^(x.e + 20))
    ELSE IF x.s = 1 THEN 0 - (x.m \div 2^(0 - (x.e + 20)))
    ELSE x.m \div 2^(0 - (x.e + 20))

RECURSIVE ExpSum(_, _, _, _)
\* Taylor series of e^r in units of 2^-15, summed from the n-th term on.
ExpSum(r, n, term, acc) ==
    IF n > SeriesTerms THEN acc
    ELSE ExpSum(r, n + 1, (term * r) \div (n * 2^15), acc + (term * r) \div (n * 2^15))

\* f64::exp
exp(x) ==
    LET \* x = k ln 2 + r: e^x = 2^k e^r
        k == (Fixed20(x) + (Ln2Fixed \div 2)) \div Ln2Fixed
        r == (Fixed20(x) - k * Ln2Fixed) \div 32
    IN  IF is_nan(x) THEN NaN
        ELSE IF is_infinite(x) THEN (IF x.s = 0 THEN x ELSE Zero(0))
        ELSE IF x.m = 0 \/ MagBits(x) <= 0 - (PrecisionBits + 1) THEN One
        ELSE IF MagBits(x) > 10 THEN (IF x.s = 0 THEN Inf(0) ELSE Zero(0))
        ELSE Round(0, ExpSum(r, 1, 2^15, 2^15), k - 15)

RECURSIVE Expm1Horner(_, _)
\* 1 + x/(j+1) * (1 + x/(j+2) * (...)): e^x - 1 = x * Expm1Horner(x, 1).
Expm1Horner(x, j) ==
    IF j >= SeriesTerms THEN One
    ELSE FAdd(One, FMul(FDiv(x, FromInt(j + 1)), Expm1Horner(x, j + 1)))

\* f64::exp_m1
exp_m1(x) ==
    IF is_nan(x) THEN NaN
    ELSE IF is_infinite(x) THEN (IF x.s = 0 THEN x ELSE MinusOne)
    ELSE IF x.m = 0 \/ MagBits(x) <= 0 - (PrecisionBits + 2) THEN x
    ELSE IF MagBits(x) <= -1 THEN FMul(x, Expm1Horner(x, 1))
    ELSE FSub(exp(x), One)

RECURSIVE AtanhHorner(_, _)
\* 1/(2j+1) + s2 * (1/(2j+3) + s2 * (...)): atanh(s) = s * AtanhHorner(s^2, 0).
AtanhHorner(s2, j) ==
    IF 2 * j >= SeriesTerms THEN FDiv(One, FromInt(2 * j + 1))
    ELSE mul_add(s2, AtanhHorner(s2, j + 1), FDiv(One, FromInt(2 * j + 1)))

\* 2 atanh(s)
AtanhSeries(s) == FMul(FMul(Two, s), AtanhHorner(FMul(s, s), 0))

\* ln(1 + z) = 2 atanh(z / (2 + z)) for |z| < 1/2.
Ln1pSeries(z) == AtanhSeries(FDiv(z, FAdd(Two, z)))

\* f64::ln
ln(x) ==
    LET \* x = 2^k (1 + z) with the significand n of x below or above sqrt(2):
        \* ln x = k ln 2 + ln(1 + z)
        n   == NormM(x.m, PrecisionBits)
        xe  == NormE(x.m, x.e, PrecisionBits)
        low == n * n < 2^(2 * PrecisionBits - 1)
        k   == IF low THEN xe + PrecisionBits - 1 ELSE xe + PrecisionBits
        z   == Dyadic(IF low THEN 2 * n - 2^PrecisionBits ELSE n - 2^PrecisionBits,
                      0 - PrecisionBits)
        Scaled(series) == IF k = 0 THEN series ELSE mul_add(FromInt(k), Ln2, series)
    IN  IF is_nan(x) THEN NaN
        ELSE IF IsZero(x) THEN Inf(1)
        ELSE IF x.s = 1 THEN NaN
        ELSE IF is_infinite(x) THEN x
        ELSE Scaled(Ln1pSeries(z))

\* f64::ln_1p
ln_1p(x) ==
    IF is_nan(x) THEN NaN
    ELSE IF is_infinite(x) THEN (IF x.s = 0 THEN x ELSE NaN)
    ELSE IF x.m = 0 \/ MagBits(x) <= 0 - (PrecisionBits + 2) THEN x
    ELSE IF FLt(x, MinusOne) THEN NaN
    ELSE IF FEq(x, MinusOne) THEN Inf(1)
    ELSE IF MagBits(x) <= -2 THEN Ln1pSeries(x)
    ELSE ln(FAdd(One, x))

\* A finite y is an integer.
IsInteger(y) ==
    y.m = 0 \/ y.e >= 0 \/ (0 - y.e <= 30 /\ y.m % 2^(0 - y.e) = 0)

\* A finite y is an odd integer.
IsOddInt(y) ==
    /\ y.m # 0
    /\ \/ (y.e = 0 /\ y.m % 2 = 1)
       \/ (y.e < 0 /\ 0 - y.e <= 30 /\ y.m % 2^(0 - y.e) = 0
           /\ (y.m \div 2^(0 - y.e)) % 2 = 1)

\* f64::powf
powf(x, y) ==
    LET Signed(p) == IF x.s = 1 /\ IsOddInt(y) THEN FNeg(p) ELSE p
    IN  IF IsZero(y) THEN One
        ELSE IF x = One THEN One
        ELSE IF is_nan(x) \/ is_nan(y) THEN NaN
        ELSE IF is_infinite(y)
             THEN (IF Cmp(abs(x), One) = 0 THEN One
                   ELSE IF (Cmp(abs(x), One) < 0) = (y.s = 0) THEN Zero(0)
                   ELSE Inf(0))
        ELSE IF IsZero(x)
             THEN (IF y.s = 1 THEN Inf(IF IsOddInt(y) THEN x.s ELSE 0)
                   ELSE Zero(IF IsOddInt(y) THEN x.s ELSE 0))
        ELSE IF is_infinite(x)
             THEN (IF y.s = 1 THEN Zero(IF x.s = 1 /\ IsOddInt(y) THEN 1 ELSE 0)
                   ELSE Inf(IF x.s = 1 /\ IsOddInt(y) THEN 1 ELSE 0))
        ELSE IF x.s = 1 /\ ~IsInteger(y) THEN NaN
        ELSE IF y = One THEN x
        ELSE IF y = Two THEN FMul(x, x)
        ELSE IF y = MinusOne THEN FDiv(One, x)
        ELSE Signed(exp(FMul(y, ln(abs(x)))))

(***************************************************************************)
(* lib.rs: tolerances, error taxonomy, validation predicates               *)
(***************************************************************************)

\* 1e-12, which is 590295810.36 * 2^-69
EPSILON == Round(0, 590295810, -69)

MAX_DURATION_YEARS == FromInt(1000)

is_effectively_zero(value) == FLe(abs(value), EPSILON)

approx_eq(a, b) == FLe(abs(FSub(a, b)), EPSILON)

\* Faulty variant: the comparison is made without the tolerance.
approx_gte_without_tolerance(a, b) == FGe(a, b)

approx_gte(a, b) == FGe(a, FSub(b, EPSILON))

\* DeclineCurveAnalysisError, the closed set of error kinds.
ErrorKinds ==
    {"DeclineRateTooHigh", "DeclineRateWrongSign", "CannotSolveDecline",
     "ExponentTooLarge", "DurationTooLong", "InvalidInput"}

\* Ok(()) of a validation predicate.
Ok == [tag |-> "Ok"]

Err(kind) == [tag |-> "Err", kind |-> kind, reason |-> <<>>]

\* InvalidInput { reason }: the reason is the name followed by the complaint.
InvalidInput(name, complaint) ==
    [tag |-> "Err", kind |-> "InvalidInput", reason |-> <<name, complaint>>]

IsErr(r) == r.tag = "Err"

\* The `?` operator: `checked?; rest` returns the error of `checked`, or
\* goes on with `rest`.
Try(checked, rest) == IF IsErr(checked) THEN checked ELSE rest

\* Faulty variant: only NaN is refused, an infinity passes as finite.
validate_finite_nan_only(value, name) ==
    IF is_nan(value)
    THEN InvalidInput(name, "is not-a-number, but expected a finite number")
    ELSE Ok

validate_finite(value, name) ==
    IF is_finite(value) THEN Ok
    ELSE InvalidInput(name,
            IF is_nan(value) THEN "is not-a-number, but expected a finite number"
            ELSE "is infinity, but expected a finite number")

\* Faulty variant: the value is compared with zero, so -0.0 passes.
validate_positive_by_comparison(value, name) ==
    Try(validate_finite(value, name),
        IF FLt(value, Zero(0))
        THEN InvalidInput(name, "is negative, but expected a positive number")
        ELSE Ok)

\* Faulty variant: the sign is looked at before the finiteness.
validate_positive_sign_first(value, name) ==
    IF is_sign_negative(value) /\ ~is_nan(value)
    THEN InvalidInput(name, "is negative, but expected a positive number")
    ELSE validate_finite(value, name)

validate_positive(value, name) ==
    Try(validate_finite(value, name),
        IF is_sign_negative(value)
        THEN InvalidInput(name, "is negative, but expected a positive number")
        ELSE Ok)

validate_non_zero_positive_rate(value, name) ==
    Try(validate_finite(value, name),
        IF is_sign_negative(value) \/ is_effectively_zero(value)
        THEN InvalidInput(name, "is negative or zero, but expected a positive number")
        ELSE Ok)

validate_non_zero_decline_rate(value, name) ==
    Try(validate_finite(value, name),
        IF is_effectively_zero(value)
        THEN InvalidInput(name, "is approximately zero, but expected it to be non-zero")
        ELSE Ok)

\* The implementations of DeclineTimeUnit.
TimeUnits == {"AverageDaysTime", "AverageYearsTime"}

\* DeclineTimeUnit::LENGTH: 365.25 and 1.
LENGTH(unit) == IF unit = "AverageYearsTime" THEN Dyadic(1461, -2) ELSE One

\* DeclineTimeUnit::to_unit
to_unit(value, unit, other) == FDiv(FMul(value, LENGTH(unit)), LENGTH(other))

\* Faulty variant: the bound of MAX_DURATION_YEARS is left out.
validate_duration_unbounded(unit, duration) ==
    validate_positive(duration, "duration")

validate_duration(unit, duration) ==
    Try(validate_positive(duration, "duration"),
        IF FGt(to_unit(duration, unit, "AverageYearsTime"), MAX_DURATION_YEARS)
        THEN Err("DurationTooLong")
        ELSE Ok)

validate_incremental_volume(volume) ==
    Try(validate_finite(volume, "incremental volume"),
        IF is_sign_negative(volume)
        THEN InvalidInput("incremental volume",
                          "is negative, but expected a positive number")
        ELSE Ok)

\* Ok(DeclineRateSignValidation::Continue | ZeroDuration) or the error.
validate_decline_rate_sign(decline_rate, initial_rate, final_rate) ==
    IF FLt(initial_rate, final_rate)
    THEN (IF FGt(decline_rate, Zero(0)) THEN Err("DeclineRateWrongSign")
          ELSE [tag |-> "Ok", value |-> "Continue"])
    ELSE IF FGt(initial_rate, final_rate)
    THEN (IF FLt(decline_rate, Zero(0)) THEN Err("DeclineRateWrongSign")
          ELSE [tag |-> "Ok", value |-> "Continue"])
    ELSE [tag |-> "Ok", value |-> "ZeroDuration"]

\* Ok(Self { .. }) of a constructor.
OkSeg(seg) == [tag |-> "Ok", seg |-> seg]

(***************************************************************************)
(* delay.rs                                                                *)
(***************************************************************************)

DelayParameters(unit, incremental_duration) ==
    [model |-> "Delay", unit |-> unit, incremental_duration |-> incremental_duration]

\* Faulty variant: the validation is unwrapped instead of propagated with `?`,
\* so an invalid duration panics.
Delay_from_incremental_duration_unwrapping(unit, incremental_duration) ==
    IF IsErr(validate_duration(unit, incremental_duration))
    THEN [tag |-> "Panic"]
    ELSE OkSeg(DelayParameters(unit, incremental_duration))

Delay_from_incremental_duration(unit, incremental_duration) ==
    Try(validate_duration(unit, incremental_duration),
        OkSeg(DelayParameters(unit, incremental_duration)))

Delay_incremental_volume_at_time(self, time) == Zero(0)

Delay_incremental_volume(self) == Zero(0)

Delay_final_rate(self) == Zero(0)

Delay_rate_at_time(self, time) == Zero(0)

(***************************************************************************)
(* flat.rs                                                                 *)
(***************************************************************************)

FlatParameters(unit, rate, incremental_duration) ==
    [model |-> "Flat", unit |-> unit, rate |-> rate,
     incremental_duration |-> incremental_duration]

\* Faulty variant: the rate is held to the rule of the declining models, so
\* a rate of zero is refused.
Flat_from_incremental_duration_non_zero_rate(unit, rate, incremental_duration) ==
    Try(validate_non_zero_positive_rate(rate, "rate"),
    Try(validate_duration(unit, incremental_duration),
        OkSeg(FlatParameters(unit, rate, incremental_duration))))

Flat_from_incremental_duration(unit, rate, incremental_duration) ==
    Try(validate_positive(rate, "rate"),
    Try(validate_duration(unit, incremental_duration),
        OkSeg(FlatParameters(unit, rate, incremental_duration))))

\* Faulty variant: a zero rate is refused before the volume is looked at.
Flat_from_incremental_volume_rate_first(unit, rate, incremental_volume) ==
    LET Solved(incremental_duration) ==
            Try(validate_duration(unit, incremental_duration),
                OkSeg(FlatParameters(unit, rate, incremental_duration)))
    IN  Try(validate_positive(rate, "rate"),
        Try(validate_incremental_volume(incremental_volume),
            IF is_effectively_zero(rate) THEN Err("CannotSolveDecline")
            ELSE IF is_effectively_zero(incremental_volume)
            THEN OkSeg(FlatParameters(unit, rate, Zero(0)))
            ELSE Solved(FDiv(incremental_volume, rate))))

Flat_from_incremental_volume(unit, rate, incremental_volume) ==
    LET Solved(incremental_duration) ==
            Try(validate_duration(unit, incremental_duration),
                OkSeg(FlatParameters(unit, rate, incremental_duration)))
    IN  Try(validate_positive(rate, "rate"),
        Try(validate_incremental_volume(incremental_volume),
            IF is_effectively_zero(incremental_volume)
            THEN OkSeg(FlatParameters(unit, rate, Zero(0)))
            ELSE IF is_effectively_zero(rate) THEN Err("CannotSolveDecline")
            ELSE Solved(FDiv(incremental_volume, rate))))

Flat_incremental_volume_at_time_without_clamping(self, time) ==
    FMul(self.rate, time)

Flat_incremental_volume(self) ==
    Flat_incremental_volume_at_time_without_clamping(self, self.incremental_duration)

Flat_incremental_volume_at_time(self, time) ==
    IF FGt(time, self.incremental_duration) THEN Flat_incremental_volume(self)
    ELSE Flat_incremental_volume_at_time_without_clamping(self, time)

Flat_final_rate(self) == self.rate

Flat_rate_at_time(self, time) == self.rate

(***************************************************************************)
(* linear.rs                                                               *)
(***************************************************************************)

LinearParameters(unit, initial_rate, decline_rate, incremental_duration) ==
    [model |-> "Linear", unit |-> unit, initial_rate |-> initial_rate,
     decline_rate |-> decline_rate, incremental_duration |-> incremental_duration]

Linear_incremental_volume_at_time_without_clamping(self, time) ==
    FSub(FMul(self.initial_rate, time),
         FMul(FMul(FMul(Dyadic(1, -1), self.decline_rate), self.initial_rate),
              powi2(time)))

Linear_incremental_volume(self) ==
    Linear_incremental_volume_at_time_without_clamping(self, self.incremental_duration)

Linear_incremental_volume_at_time(self, time) ==
    IF FGt(time, self.incremental_duration) THEN Linear_incremental_volume(self)
    ELSE Linear_incremental_volume_at_time_without_clamping(self, time)

Linear_rate_at_time_without_clamping(self, time) ==
    mul_add(self.initial_rate, FMul(FNeg(self.decline_rate), time), self.initial_rate)

Linear_final_rate(self) ==
    Linear_rate_at_time_without_clamping(self, self.incremental_duration)

Linear_rate_at_time(self, time) ==
    IF FGt(time, self.incremental_duration) THEN Linear_final_rate(self)
    ELSE Linear_rate_at_time_without_clamping(self, time)

\* Faulty variant: a final rate of zero passes, only a negative one is refused.
Linear_from_incremental_duration_zero_allowed(unit, initial_rate, decline_rate, incremental_duration) ==
    LET Built(result) ==
            Try(validate_positive(
                    Linear_rate_at_time_without_clamping(result, incremental_duration),
                    "final rate"),
                OkSeg(result))
    IN  Try(validate_non_zero_positive_rate(initial_rate, "initial rate"),
        Try(validate_non_zero_decline_rate(decline_rate, "decline rate"),
        Try(validate_duration(unit, incremental_duration),
            Built(LinearParameters(unit, initial_rate, decline_rate,
                                   incremental_duration)))))

Linear_from_incremental_duration(unit, initial_rate, decline_rate, incremental_duration) ==
    LET Built(result) ==
            Try(validate_non_zero_positive_rate(
                    Linear_rate_at_time_without_clamping(result, incremental_duration),
                    "final rate"),
                OkSeg(result))
    IN  Try(validate_non_zero_positive_rate(initial_rate, "initial rate"),
        Try(validate_non_zero_decline_rate(decline_rate, "decline rate"),
        Try(validate_duration(unit, incremental_duration),
            Built(LinearParameters(unit, initial_rate, decline_rate,
                                   incremental_duration)))))

\* Faulty variant: the other root of the quadratic is taken.
Linear_from_incremental_volume_larger_root(unit, initial_rate, decline_rate, incremental_volume) ==
    LET Solved(incremental_duration) ==
            Try(validate_duration(unit, incremental_duration),
                OkSeg(LinearParameters(unit, initial_rate, decline_rate,
                                       incremental_duration)))
        a == FMul(FMul(Dyadic(-1, -1), decline_rate), initial_rate)
        b == initial_rate
        c == FNeg(incremental_volume)
        discriminant == FSub(FMul(b, b), FMul(FMul(FromInt(4), a), c))
    IN  Try(validate_non_zero_positive_rate(initial_rate, "initial rate"),
        Try(validate_non_zero_decline_rate(decline_rate, "decline rate"),
        Try(validate_incremental_volume(incremental_volume),
            IF is_effectively_zero(incremental_volume)
            THEN OkSeg(LinearParameters(unit, initial_rate, decline_rate, Zero(0)))
            ELSE IF FLt(discriminant, Zero(0)) THEN Err("CannotSolveDecline")
            ELSE Solved(FDiv(FSub(FNeg(b), sqrt(discriminant)), FMul(Two, a))))))

Linear_from_incremental_volume(unit, initial_rate, decline_rate, incremental_volume) ==
    LET Solved(incremental_duration) ==
            Try(validate_duration(unit, incremental_duration),
                OkSeg(LinearParameters(unit, initial_rate, decline_rate,
                                       incremental_duration)))
        a == FMul(FMul(Dyadic(-1, -1), decline_rate), initial_rate)
        b == initial_rate
        c == FNeg(incremental_volume)
        discriminant == FSub(FMul(b, b), FMul(FMul(FromInt(4), a), c))
    IN  Try(validate_non_zero_positive_rate(initial_rate, "initial rate"),
        Try(validate_non_zero_decline_rate(decline_rate, "decline rate"),
        Try(validate_incremental_volume(incremental_volume),
            IF is_effectively_zero(incremental_volume)
            THEN OkSeg(LinearParameters(unit, initial_rate, decline_rate, Zero(0)))
            ELSE IF FLt(discriminant, Zero(0)) THEN Err("CannotSolveDecline")
            ELSE Solved(FDiv(FAdd(FNeg(b), sqrt(discriminant)), FMul(Two, a))))))

\* Faulty variant: the decline rate is not validated, so the branch for an
\* approximately zero decline rate is taken.
Linear_from_final_rate_decline_unchecked(unit, initial_rate, decline_rate, final_rate) ==
    LET Solved(incremental_duration) ==
            Try(validate_duration(unit, incremental_duration),
                OkSeg(LinearParameters(unit, initial_rate, decline_rate,
                                       incremental_duration)))
    IN  Try(validate_non_zero_positive_rate(initial_rate, "initial rate"),
        Try(validate_non_zero_positive_rate(final_rate, "final rate"),
            IF is_effectively_zero(decline_rate)
            THEN (IF approx_eq(initial_rate, final_rate)
                  THEN OkSeg(LinearParameters(unit, initial_rate, decline_rate, Zero(0)))
                  ELSE Err("CannotSolveDecline"))
            ELSE Solved(FDiv(FSub(initial_rate, final_rate),
                             FMul(initial_rate, decline_rate)))))

Linear_from_final_rate(unit, initial_rate, decline_rate, final_rate) ==
    LET Solved(incremental_duration) ==
            Try(validate_duration(unit, incremental_duration),
                OkSeg(LinearParameters(unit, initial_rate, decline_rate,
                                       incremental_duration)))
    IN  Try(validate_non_zero_positive_rate(initial_rate, "initial rate"),
        Try(validate_non_zero_decline_rate(decline_rate, "decline rate"),
        Try(validate_non_zero_positive_rate(final_rate, "final rate"),
            IF is_effectively_zero(decline_rate)
            THEN (IF approx_eq(initial_rate, final_rate)
                  THEN OkSeg(LinearParameters(unit, initial_rate, decline_rate, Zero(0)))
                  ELSE Err("CannotSolveDecline"))
            ELSE Solved(FDiv(FSub(initial_rate, final_rate),
                             FMul(initial_rate, decline_rate))))))

(***************************************************************************)
(* exponential.rs                                                          *)
(***************************************************************************)

ExponentialParameters(unit, initial_rate, decline_rate, incremental_duration) ==
    [model |-> "Exponential", unit |-> unit, initial_rate |-> initial_rate,
     decline_rate |-> decline_rate, incremental_duration |-> incremental_duration]

\* Faulty variant: the magnitude of the decline rate is stored.
Exponential_from_incremental_duration_decline_magnitude(unit, initial_rate, decline_rate, incremental_duration) ==
    Try(validate_non_zero_positive_rate(initial_rate, "initial rate"),
    Try(validate_non_zero_decline_rate(decline_rate, "decline rate"),
    Try(validate_duration(unit, incremental_duration),
        OkSeg(ExponentialParameters(unit, initial_rate, abs(decline_rate),
                                    incremental_duration)))))

Exponential_from_incremental_duration(unit, initial_rate, decline_rate, incremental_duration) ==
    Try(validate_non_zero_positive_rate(initial_rate, "initial rate"),
    Try(validate_non_zero_decline_rate(decline_rate, "decline rate"),
    Try(validate_duration(unit, incremental_duration),
        OkSeg(ExponentialParameters(unit, initial_rate, decline_rate,
                                    incremental_duration)))))

Exponential_from_incremental_volume(unit, initial_rate, decline_rate, incremental_volume) ==
    LET Solved(incremental_duration) ==
            Try(validate_duration(unit, incremental_duration),
                OkSeg(ExponentialParameters(unit, initial_rate, decline_rate,
                                            incremental_duration)))
    IN  Try(validate_non_zero_positive_rate(initial_rate, "initial rate"),
        Try(validate_non_zero_decline_rate(decline_rate, "decline rate"),
        Try(validate_incremental_volume(incremental_volume),
            IF FGt(decline_rate, Zero(0))
               /\ approx_gte(incremental_volume, FDiv(initial_rate, decline_rate))
            THEN Err("CannotSolveDecline")
            ELSE Solved(FDiv(FNeg(ln_1p(FDiv(FMul(FNeg(incremental_volume),
                                                  decline_rate),
                                             initial_rate))),
                             decline_rate)))))

Exponential_from_final_rate(unit, initial_rate, decline_rate, final_rate) ==
    LET Solved(incremental_duration) ==
            Try(validate_duration(unit, incremental_duration),
                OkSeg(ExponentialParameters(unit, initial_rate, decline_rate,
                                            incremental_duration)))
    IN  Try(validate_non_zero_positive_rate(initial_rate, "initial rate"),
        Try(validate_non_zero_decline_rate(decline_rate, "decline rate"),
        Try(validate_non_zero_positive_rate(final_rate, "final rate"),
        Try(validate_decline_rate_sign(decline_rate, initial_rate, final_rate),
            IF validate_decline_rate_sign(decline_rate, initial_rate, final_rate).value
                   = "ZeroDuration"
            THEN OkSeg(ExponentialParameters(unit, initial_rate, decline_rate, Zero(0)))
            ELSE Solved(FDiv(ln(FDiv(initial_rate, final_rate)), decline_rate))))))

\* Faulty variant: the negation of exp_m1 is lost.
Exponential_incremental_volume_at_time_sign_lost(self, time) ==
    FDiv(FMul(exp_m1(FMul(FNeg(self.decline_rate), time)), self.initial_rate),
         self.decline_rate)

Exponential_incremental_volume_at_time_without_clamping(self, time) ==
    FDiv(FMul(FNeg(exp_m1(FMul(FNeg(self.decline_rate), time))), self.initial_rate),
         self.decline_rate)

Exponential_incremental_volume(self) ==
    Exponential_incremental_volume_at_time_without_clamping(self,
                                                            self.incremental_duration)

Exponential_incremental_volume_at_time(self, time) ==
    IF FGt(time, self.incremental_duration) THEN Exponential_incremental_volume(self)
    ELSE Exponential_incremental_volume_at_time_without_clamping(self, time)

Exponential_rate_at_time_without_clamping(self, time) ==
    FMul(self.initial_rate, exp(FMul(FNeg(self.decline_rate), time)))

Exponential_final_rate(self) ==
    Exponential_rate_at_time_without_clamping(self, self.incremental_duration)

\* Faulty variant: the curve is followed past the declared duration.
Exponential_rate_at_time_extrapolating(self, time) ==
    Exponential_rate_at_time_without_clamping(self, time)

Exponential_rate_at_time(self, time) ==
    IF FGt(time, self.incremental_duration) THEN Exponential_final_rate(self)
    ELSE Exponential_rate_at_time_without_clamping(self, time)

(***************************************************************************)
(* harmonic.rs                                                             *)
(***************************************************************************)

\* Faulty variant: a duration exactly at the singularity is let through.
validate_harmonic_singularity_strict(decline_rate, duration) ==
    IF FLt(decline_rate, Zero(0)) /\ FGt(duration, FDiv(MinusOne, decline_rate))
    THEN Err("DurationTooLong")
    ELSE Ok

validate_harmonic_singularity(decline_rate, duration) ==
    IF FLt(decline_rate, Zero(0)) /\ FGe(duration, FDiv(MinusOne, decline_rate))
    THEN Err("DurationTooLong")
    ELSE Ok

HarmonicParameters(unit, initial_rate, initial_decline_rate, incremental_duration) ==
    [model |-> "Harmonic", unit |-> unit, initial_rate |-> initial_rate,
     initial_decline_rate |-> initial_decline_rate,
     incremental_duration |-> incremental_duration]

Harmonic_from_incremental_duration(unit, initial_rate, initial_decline_rate, incremental_duration) ==
    Try(validate_non_zero_positive_rate(initial_rate, "initial rate"),
    Try(validate_non_zero_decline_rate(initial_decline_rate, "initial decline rate"),
    Try(validate_duration(unit, incremental_duration),
    Try(validate_harmonic_singularity(initial_decline_rate, incremental_duration),
        OkSeg(HarmonicParameters(unit, initial_rate, initial_decline_rate,
                                 incremental_duration))))))

Harmonic_from_incremental_volume(unit, initial_rate, initial_decline_rate, incremental_volume) ==
    LET Solved(incremental_duration) ==
            Try(validate_duration(unit, incremental_duration),
            Try(validate_harmonic_singularity(initial_decline_rate, incremental_duration),
                OkSeg(HarmonicParameters(unit, initial_rate, initial_decline_rate,
                                         incremental_duration))))
    IN  Try(validate_non_zero_positive_rate(initial_rate, "initial rate"),
        Try(validate_non_zero_decline_rate(initial_decline_rate, "initial decline rate"),
        Try(validate_incremental_volume(incremental_volume),
            Solved(FDiv(exp_m1(FDiv(FMul(incremental_volume, initial_decline_rate),
                                    initial_rate)),
                        initial_decline_rate)))))

\* Faulty variant: the signs of the two decline rates are not compared.
Harmonic_from_final_decline_rate_signs_unchecked(unit, initial_rate, initial_decline_rate, final_decline_rate) ==
    LET Solved(incremental_duration) ==
            Try(validate_duration(unit, incremental_duration),
            Try(validate_harmonic_singularity(initial_decline_rate, incremental_duration),
                OkSeg(HarmonicParameters(unit, initial_rate, initial_decline_rate,
                                         incremental_duration))))
    IN  Try(validate_non_zero_positive_rate(initial_rate, "initial rate"),
        Try(validate_non_zero_decline_rate(initial_decline_rate, "initial decline rate"),
        Try(validate_non_zero_decline_rate(final_decline_rate, "final decline rate"),
            Solved(FSub(FDiv(One, final_decline_rate),
                        FDiv(One, initial_decline_rate))))))

Harmonic_from_final_decline_rate(unit, initial_rate, initial_decline_rate, final_decline_rate) ==
    LET Solved(incremental_duration) ==
            Try(validate_duration(unit, incremental_duration),
            Try(validate_harmonic_singularity(initial_decline_rate, incremental_duration),
                OkSeg(HarmonicParameters(unit, initial_rate, initial_decline_rate,
                                         incremental_duration))))
    IN  Try(validate_non_zero_positive_rate(initial_rate, "initial rate"),
        Try(validate_non_zero_decline_rate(initial_decline_rate, "initial decline rate"),
        Try(validate_non_zero_decline_rate(final_decline_rate, "final decline rate"),
            IF is_sign_positive(initial_decline_rate)
                   # is_sign_positive(final_decline_rate)
            THEN Err("CannotSolveDecline")
            ELSE Solved(FSub(FDiv(One, final_decline_rate),
                             FDiv(One, initial_decline_rate))))))

Harmonic_from_final_rate(unit, initial_rate, initial_decline_rate, final_rate) ==
    LET Solved(incremental_duration) ==
            Try(validate_duration(unit, incremental_duration),
            Try(validate_harmonic_singularity(initial_decline_rate, incremental_duration),
                OkSeg(HarmonicParameters(unit, initial_rate, initial_decline_rate,
                                         incremental_duration))))
    IN  Try(validate_non_zero_positive_rate(initial_rate, "initial rate"),
        Try(validate_non_zero_decline_rate(initial_decline_rate, "initial decline rate"),
        Try(validate_non_zero_positive_rate(final_rate, "final rate"),
        Try(validate_decline_rate_sign(initial_decline_rate, initial_rate, final_rate),
            IF validate_decline_rate_sign(initial_decline_rate, initial_rate,
                                          final_rate).value = "ZeroDuration"
            THEN OkSeg(HarmonicParameters(unit, initial_rate, initial_decline_rate,
                                          Zero(0)))
            ELSE Solved(FDiv(FSub(initial_rate, final_rate),
                             FMul(initial_decline_rate, final_rate)))))))

Harmonic_incremental_volume_at_time_without_clamping(self, time) ==
    FDiv(FMul(self.initial_rate, ln_1p(FMul(time, self.initial_decline_rate))),
         self.initial_decline_rate)

Harmonic_incremental_volume(self) ==
    Harmonic_incremental_volume_at_time_without_clamping(self,
                                                         self.incremental_duration)

Harmonic_incremental_volume_at_time(self, time) ==
    IF FGt(time, self.incremental_duration) THEN Harmonic_incremental_volume(self)
    ELSE Harmonic_incremental_volume_at_time_without_clamping(self, time)

Harmonic_rate_at_time_without_clamping(self, time) ==
    FDiv(self.initial_rate, mul_add(time, self.initial_decline_rate, One))

Harmonic_final_rate(self) ==
    Harmonic_rate_at_time_without_clamping(self, self.incremental_duration)

Harmonic_rate_at_time(self, time) ==
    IF FGt(time, self.incremental_duration) THEN Harmonic_final_rate(self)
    ELSE Harmonic_rate_at_time_without_clamping(self, time)

(***************************************************************************)
(* hyperbolic.rs                                                           *)
(***************************************************************************)

MAX_EXPONENT == FromInt(100)

\* Faulty variant: the sign of the exponent is compared before its magnitude.
validate_hyperbolic_exponent_sign_first(exponent, initial_decline_rate) ==
    Try(validate_finite(exponent, "exponent"),
        IF is_effectively_zero(exponent)
        THEN InvalidInput("exponent",
                "was approximately zero, so an exponential should be used instead")
        ELSE IF is_effectively_zero(FSub(exponent, One))
             THEN InvalidInput("exponent",
                     "was approximately one, so a harmonic should be used instead")
        ELSE IF is_sign_positive(exponent) # is_sign_positive(initial_decline_rate)
             THEN Err("DeclineRateWrongSign")
        ELSE IF FGt(abs(exponent), MAX_EXPONENT) THEN Err("ExponentTooLarge")
        ELSE Ok)

\* Faulty variant: the sign of the exponent is not compared with the sign of
\* the decline rate.
validate_hyperbolic_exponent_sign_unchecked(exponent, initial_decline_rate) ==
    Try(validate_finite(exponent, "exponent"),
        IF is_effectively_zero(exponent)
        THEN InvalidInput("exponent",
                "was approximately zero, so an exponential should be used instead")
        ELSE IF is_effectively_zero(FSub(exponent, One))
             THEN InvalidInput("exponent",
                     "was approximately one, so a harmonic should be used instead")
        ELSE IF FGt(abs(exponent), MAX_EXPONENT) THEN Err("ExponentTooLarge")
        ELSE Ok)

validate_hyperbolic_exponent(exponent, initial_decline_rate) ==
    Try(validate_finite(exponent, "exponent"),
        IF is_effectively_zero(exponent)
        THEN InvalidInput("exponent",
                "was approximately zero, so an exponential should be used instead")
        ELSE IF is_effectively_zero(FSub(exponent, One))
             THEN InvalidInput("exponent",
                     "was approximately one, so a harmonic should be used instead")
        ELSE IF FGt(abs(exponent), MAX_EXPONENT) THEN Err("ExponentTooLarge")
        ELSE IF is_sign_positive(exponent) # is_sign_positive(initial_decline_rate)
             THEN Err("DeclineRateWrongSign")
        ELSE Ok)

HyperbolicParameters(unit, initial_rate, initial_decline_rate, incremental_duration, exponent) ==
    [model |-> "Hyperbolic", unit |-> unit, initial_rate |-> initial_rate,
     initial_decline_rate |-> initial_decline_rate,
     incremental_duration |-> incremental_duration, exponent |-> exponent]

\* Faulty variant: the exponent is validated before the duration.
Hyperbolic_from_incremental_duration_exponent_first(unit, initial_rate, initial_decline_rate, incremental_duration, exponent) ==
    Try(validate_non_zero_positive_rate(initial_rate, "initial rate"),
    Try(validate_non_zero_decline_rate(initial_decline_rate, "initial decline rate"),
    Try(validate_hyperbolic_exponent(exponent, initial_decline_rate),
    Try(validate_duration(unit, incremental_duration),
        OkSeg(HyperbolicParameters(unit, initial_rate, initial_decline_rate,
                                   incremental_duration, exponent))))))

Hyperbolic_from_incremental_duration(unit, initial_rate, initial_decline_rate, incremental_duration, exponent) ==
    Try(validate_non_zero_positive_rate(initial_rate, "initial rate"),
    Try(validate_non_zero_decline_rate(initial_decline_rate, "initial decline rate"),
    Try(validate_duration(unit, incremental_duration),
    Try(validate_hyperbolic_exponent(exponent, initial_decline_rate),
        OkSeg(HyperbolicParameters(unit, initial_rate, initial_decline_rate,
                                   incremental_duration, exponent))))))

\* Faulty variant: the maximum volume is enforced for every positive exponent,
\* not only below 1.
Hyperbolic_from_incremental_volume_any_exponent(unit, initial_rate, initial_decline_rate, incremental_volume, exponent) ==
    LET Solved(incremental_duration) ==
            Try(validate_duration(unit, incremental_duration),
                OkSeg(HyperbolicParameters(unit, initial_rate, initial_decline_rate,
                                           incremental_duration, exponent)))
        one_minus_exponent == FSub(One, exponent)
        max_volume ==
            FDiv(initial_rate, FMul(one_minus_exponent, initial_decline_rate))
        base ==
            FSub(One,
                 FDiv(FMul(FMul(incremental_volume, initial_decline_rate),
                           one_minus_exponent),
                      initial_rate))
        duration_denom == FMul(exponent, initial_decline_rate)
    IN  Try(validate_non_zero_positive_rate(initial_rate, "initial rate"),
        Try(validate_non_zero_decline_rate(initial_decline_rate, "initial decline rate"),
        Try(validate_incremental_volume(incremental_volume),
        Try(validate_hyperbolic_exponent(exponent, initial_decline_rate),
            IF FGt(initial_decline_rate, Zero(0)) /\ FGt(exponent, Zero(0))
               /\ approx_gte(incremental_volume, max_volume)
            THEN Err("CannotSolveDecline")
            ELSE Solved(FDiv(FSub(powf(base, FDiv(FNeg(exponent), one_minus_exponent)),
                                  One),
                             duration_denom))))))

Hyperbolic_from_incremental_volume(unit, initial_rate, initial_decline_rate, incremental_volume, exponent) ==
    LET Solved(incremental_duration) ==
            Try(validate_duration(unit, incremental_duration),
                OkSeg(HyperbolicParameters(unit, initial_rate, initial_decline_rate,
                                           incremental_duration, exponent)))
        one_minus_exponent == FSub(One, exponent)
        max_volume ==
            FDiv(initial_rate, FMul(one_minus_exponent, initial_decline_rate))
        base ==
            FSub(One,
                 FDiv(FMul(FMul(incremental_volume, initial_decline_rate),
                           one_minus_exponent),
                      initial_rate))
        duration_denom == FMul(exponent, initial_decline_rate)
    IN  Try(validate_non_zero_positive_rate(initial_rate, "initial rate"),
        Try(validate_non_zero_decline_rate(initial_decline_rate, "initial decline rate"),
        Try(validate_incremental_volume(incremental_volume),
        Try(validate_hyperbolic_exponent(exponent, initial_decline_rate),
            IF FGt(initial_decline_rate, Zero(0)) /\ FGt(exponent, Zero(0))
               /\ FLt(exponent, One) /\ approx_gte(incremental_volume, max_volume)
            THEN Err("CannotSolveDecline")
            ELSE Solved(FDiv(FSub(powf(base, FDiv(FNeg(exponent), one_minus_exponent)),
                                  One),
                             duration_denom))))))

Hyperbolic_from_final_decline_rate(unit, initial_rate, initial_decline_rate, final_decline_rate, exponent) ==
    LET Solved(incremental_duration) ==
            Try(validate_duration(unit, incremental_duration),
                OkSeg(HyperbolicParameters(unit, initial_rate, initial_decline_rate,
                                           incremental_duration, exponent)))
    IN  Try(validate_non_zero_positive_rate(initial_rate, "initial rate"),
        Try(validate_non_zero_decline_rate(initial_decline_rate, "initial decline rate"),
        Try(validate_non_zero_decline_rate(final_decline_rate, "final decline rate"),
        Try(validate_hyperbolic_exponent(exponent, initial_decline_rate),
            IF is_sign_positive(initial_decline_rate)
                   # is_sign_positive(final_decline_rate)
            THEN Err("CannotSolveDecline")
            ELSE IF FGt(exponent, Zero(0))
                    /\ FGt(final_decline_rate, initial_decline_rate)
                 THEN Err("CannotSolveDecline")
            ELSE IF ~FGt(exponent, Zero(0))
                    /\ FLt(final_decline_rate, initial_decline_rate)
                 THEN Err("CannotSolveDecline")
            ELSE Solved(FDiv(FSub(FDiv(initial_decline_rate, final_decline_rate), One),
                             FMul(exponent, initial_decline_rate)))))))

Hyperbolic_from_final_rate(unit, initial_rate, initial_decline_rate, final_rate, exponent) ==
    LET Solved(incremental_duration) ==
            Try(validate_duration(unit, incremental_duration),
                OkSeg(HyperbolicParameters(unit, initial_rate, initial_decline_rate,
                                           incremental_duration, exponent)))
    IN  Try(validate_non_zero_positive_rate(initial_rate, "initial rate"),
        Try(validate_non_zero_decline_rate(initial_decline_rate, "initial decline rate"),
        Try(validate_non_zero_positive_rate(final_rate, "final rate"),
        Try(validate_hyperbolic_exponent(exponent, initial_decline_rate),
        Try(validate_decline_rate_sign(initial_decline_rate, initial_rate, final_rate),
            IF validate_decline_rate_sign(initial_decline_rate, initial_rate,
                                          final_rate).value = "ZeroDuration"
            THEN OkSeg(HyperbolicParameters(unit, initial_rate, initial_decline_rate,
                                            Zero(0), exponent))
            ELSE Solved(FDiv(FSub(powf(FDiv(initial_rate, final_rate), exponent), One),
                             FMul(exponent, initial_decline_rate))))))))

Hyperbolic_incremental_volume_at_time_without_clamping(self, time) ==
    LET initial_decline_rate_value == self.initial_decline_rate
        factor_denom ==
            mul_add(self.initial_decline_rate, FNeg(self.exponent),
                    initial_decline_rate_value)
        power == FSub(One, FDiv(One, self.exponent))
        exponent_times_initial_decline_rate ==
            FMul(self.exponent, initial_decline_rate_value)
        base == mul_add(time, exponent_times_initial_decline_rate, One)
        Scaled(powered, factor) == mul_add(powered, FNeg(factor), factor)
    IN  Scaled(powf(base, power), FDiv(self.initial_rate, factor_denom))

Hyperbolic_incremental_volume(self) ==
    Hyperbolic_incremental_volume_at_time_without_clamping(self,
                                                           self.incremental_duration)

Hyperbolic_incremental_volume_at_time(self, time) ==
    IF FGt(time, self.incremental_duration) THEN Hyperbolic_incremental_volume(self)
    ELSE Hyperbolic_incremental_volume_at_time_without_clamping(self, time)

Hyperbolic_rate_at_time_without_clamping(self, time) ==
    FDiv(self.initial_rate,
         powf(mul_add(time, FMul(self.exponent, self.initial_decline_rate), One),
              FDiv(One, self.exponent)))

Hyperbolic_final_rate(self) ==
    Hyperbolic_rate_at_time_without_clamping(self, self.incremental_duration)

Hyperbolic_rate_at_time(self, time) ==
    IF FGt(time, self.incremental_duration) THEN Hyperbolic_final_rate(self)
    ELSE Hyperbolic_rate_at_time_without_clamping(self, time)

(***************************************************************************)
(* The evaluators of a segment, whichever model it is.                     *)
(***************************************************************************)

Segment_rate_at_time(self, time) ==
    CASE self.model = "Delay" -> Delay_rate_at_time(self, time)
      [] self.model = "Flat" -> Flat_rate_at_time(self, time)
      [] self.model = "Linear" -> Linear_rate_at_time(self, time)
      [] self.model = "Exponential" -> Exponential_rate_at_time(self, time)
      [] self.model = "Harmonic" -> Harmonic_rate_at_time(self, time)
      [] self.model = "Hyperbolic" -> Hyperbolic_rate_at_time(self, time)

Segment_incremental_volume_at_time(self, time) ==
    CASE self.model = "Delay" -> Delay_incremental_volume_at_time(self, time)
      [] self.model = "Flat" -> Flat_incremental_volume_at_time(self, time)
      [] self.model = "Linear" -> Linear_incremental_volume_at_time(self, time)
      [] self.model = "Exponential" -> Exponential_incremental_volume_at_time(self, time)
      [] self.model = "Harmonic" -> Harmonic_incremental_volume_at_time(self, time)
      [] self.model = "Hyperbolic" -> Hyperbolic_incremental_volume_at_time(self, time)

Segment_final_rate(self) ==
    CASE self.model = "Delay" -> Delay_final_rate(self)
      [] self.model = "Flat" -> Flat_final_rate(self)
      [] self.model = "Linear" -> Linear_final_rate(self)
      [] self.model = "Exponential" -> Exponential_final_rate(self)
      [] self.model = "Harmonic" -> Harmonic_final_rate(self)
      [] self.model = "Hyperbolic" -> Hyperbolic_final_rate(self)

Segment_incremental_volume(self) ==
    CASE self.model = "Delay" -> Delay_incremental_volume(self)
      [] self.model = "Flat" -> Flat_incremental_volume(self)
      [] self.model = "Linear" -> Linear_incremental_volume(self)
      [] self.model = "Exponential" -> Exponential_incremental_volume(self)
      [] self.model = "Harmonic" -> Harmonic_incremental_volume(self)
      [] self.model = "Hyperbolic" -> Hyperbolic_incremental_volume(self)

(***************************************************************************)
(* decline_rate.rs and lib.rs: the decline-rate representations and the    *)
(* conversions between them and between time units.  A rate is its f64     *)
(* value; a conversion returns Ok(rate) or Err(error).                     *)
(***************************************************************************)

\* Ok(Rate::new(value))
OkRate(value) == [tag |-> "Ok", value |-> value]

\* NominalDeclineRate::to_tangent_effective
Nominal_to_tangent_effective(self) == OkRate(FSub(One, exp(FNeg(self))))

\* Faulty variant: the general secant formula is used for every exponent.
Nominal_to_secant_effective_general(self, exponent) ==
    OkRate(FSub(One, powf(mul_add(self, exponent, One), FDiv(MinusOne, exponent))))

\* NominalDeclineRate::to_secant_effective
Nominal_to_secant_effective(self, exponent) ==
    IF FEq(exponent, Zero(0))
    THEN Try(Nominal_to_tangent_effective(self),
             OkRate(Nominal_to_tangent_effective(self).value))
    ELSE OkRate(FSub(One, powf(mul_add(self, exponent, One),
                               FDiv(MinusOne, exponent))))

\* NominalDeclineRate::to_time, behind both From impls of NominalDeclineRate
Nominal_to_time(self, unit, other) == FDiv(FMul(self, LENGTH(other)), LENGTH(unit))

\* Faulty variant: a production rate is converted by the factor of a time.
ProductionRate_from_as_time(val, unit, other) ==
    FDiv(FMul(val, LENGTH(unit)), LENGTH(other))

\* From<ProductionRate<unit>> for ProductionRate<other>
ProductionRate_from(val, unit, other) == FDiv(FMul(val, LENGTH(other)), LENGTH(unit))

\* Faulty variant: the power is b, not -b.
Secant_to_nominal_inner_positive_power(self, exponent) ==
    IF FGe(self, One) THEN Err("DeclineRateTooHigh")
    ELSE OkRate(FDiv(FSub(powf(FSub(One, self), exponent), One), exponent))

\* SecantEffectiveDeclineRate::to_nominal_inner
Secant_to_nominal_inner(self, exponent) ==
    IF FGe(self, One) THEN Err("DeclineRateTooHigh")
    ELSE OkRate(FDiv(FSub(powf(FSub(One, self), FNeg(exponent)), One), exponent))

\* TangentEffectiveDeclineRate::to_nominal_inner
Tangent_to_nominal_inner(self) ==
    IF FGe(self, One) THEN Err("DeclineRateTooHigh")
    ELSE OkRate(FNeg(ln_1p(FNeg(self))))

\* TangentEffectiveDeclineRate::to_nominal
Tangent_to_nominal(self) == Tangent_to_nominal_inner(self)

\* TangentEffectiveDeclineRate::to_secant_effective
Tangent_to_secant_effective(self, exponent) ==
    IF FEq(exponent, Zero(0)) THEN OkRate(self)
    ELSE Try(Tangent_to_nominal_inner(self),
             Nominal_to_secant_effective(Tangent_to_nominal_inner(self).value, exponent))

\* SecantEffectiveDeclineRate::to_nominal
Secant_to_nominal(self, exponent) ==
    IF FEq(exponent, Zero(0)) THEN Tangent_to_nominal(self)
    ELSE Secant_to_nominal_inner(self, exponent)

\* SecantEffectiveDeclineRate::to_tangent_effective
Secant_to_tangent_effective(self, exponent) ==
    IF FEq(exponent, Zero(0)) THEN OkRate(self)
    ELSE Try(Secant_to_nominal_inner(self, exponent),
             Nominal_to_tangent_effective(Secant_to_nominal_inner(self, exponent).value))

(***************************************************************************)
(* Inputs.  A caller passes any f64; the sets below hold the special       *)
(* values and, for each parameter, finite values on both sides of every    *)
(* threshold the code compares against.                                    *)
(***************************************************************************)

\* 2^-41 < EPSILON < 2^-39
Tiny == Dyadic(1, -41)

Small == Dyadic(1, -39)

Huge == Dyadic(1, 1000)

RateSamples ==
    {NaN, Inf(0), Inf(1), Zero(1), Zero(0), Tiny, Small, FromInt(-50), FromInt(50),
     FromInt(100), Huge}

DeclineSamples ==
    {NaN, Inf(1), Zero(0), Tiny, Dyadic(1, -1), Dyadic(-1, -1), Two, Dyadic(1, -10),
     Dyadic(-1, 40)}

\* Decline rates for from_final_decline_rate: the samples, and the two f64
\* values next below 2, which are one unit in the last place apart and have
\* the same reciprocal once rounded.
FinalDeclineSamples ==
    DeclineSamples \cup {Dyadic(2^PrecisionBits - 2, 1 - PrecisionBits),
                         Dyadic(2^PrecisionBits - 1, 1 - PrecisionBits)}

DurationSamples ==
    {NaN, Inf(0), Inf(1), Zero(1), Zero(0), MinusOne, One, Two, FromInt(4),
     FromInt(1024), Dyadic(1, 19)}

VolumeSamples ==
    {NaN, Inf(0), Inf(1), MinusOne, Zero(1), Zero(0), Tiny, Dyadic(3, -41),
     FromInt(10), FromInt(50), FromInt(100), Dyadic(1, 20)}

ExponentSamples ==
    {NaN, Inf(0), Zero(0), Tiny, Small, One, Dyadic(1, -1), Two, Dyadic(-1, -1),
     FromInt(100), FromInt(128), FromInt(-256)}

\* Nominal decline rates per unit time, from 1.6% to 6400%, and inclines.
NominalSamples ==
    {NaN, Inf(0), Zero(0), Dyadic(1, -6), Dyadic(1, -2), Dyadic(1, -1), One, Two,
     FromInt(3), FromInt(8), FromInt(64), Dyadic(-1, -1), FromInt(-6)}

\* Effective decline rates as fractions, on both sides of 1.
EffectiveSamples ==
    {NaN, Inf(0), Inf(1), Zero(0), Dyadic(1, -6), Dyadic(1, -2), Dyadic(1, -1),
     Dyadic(3, -2), Dyadic(4095, -12), One, Dyadic(3, -1), Two, Dyadic(-1, -1)}

\* Curvature exponents a conversion is asked for.
ConversionExponents ==
    {Zero(0), Zero(1), Dyadic(1, -1), One, Dyadic(3, -1), Two, Dyadic(-1, -1), NaN}

\* Quantities whose time unit is converted.
QuantitySamples ==
    {NaN, Inf(0), Zero(0), Zero(1), Tiny, One, FromInt(3), FromInt(50), FromInt(100),
     Dyadic(1461, -2), FromInt(1024), MinusOne, Huge, Dyadic(1, -1074)}

\* Times a caller evaluates a segment at: before, inside, at and past its
\* duration.
TimeSamples(self) ==
    {MinusOne, Zero(0), FMul(self.incremental_duration, Dyadic(1, -1)), self.incremental_duration,
     FAdd(self.incremental_duration, One), FMul(self.incremental_duration, Two),
     Inf(0), NaN}

(***************************************************************************)
(* State: the lifecycle construct -> evaluate (any number of times, any    *)
(* order) -> discard of one segment value.                                 *)
(***************************************************************************)

VARIABLES
    pc,      \* "idle": no value held; "constructed": a constructor has returned;
             \* "converted": a conversion has returned
    call,    \* the constructor call made and its arguments
    result,  \* what the constructor returned: Ok(segment) or Err(error)
    query    \* the last evaluator call on the segment and the value it returned

vars == <<pc, call, result, query>>

NoCall == [model |-> "none", ctor |-> "none"]

NoResult == [tag |-> "none"]

NoQuery == [op |-> "none"]

Init ==
    /\ pc = "idle"
    /\ call = NoCall
    /\ result = NoResult
    /\ query = NoQuery

\* A constructor returns r for the call c.
Return(c, r) ==
    /\ pc' = "constructed"
    /\ call' = c
    /\ result' = r
    /\ query' = NoQuery

(***************************************************************************)
(* Actions: one per constructor, one per evaluator, and the discard.       *)
(***************************************************************************)

Construct_Delay_from_incremental_duration ==
    /\ pc = "idle"
    /\ \E unit \in TimeUnits,
          incremental_duration \in DurationSamples :
           Return([model |-> "Delay", ctor |-> "from_incremental_duration", unit |-> unit,
                   incremental_duration |-> incremental_duration],
                  Delay_from_incremental_duration(unit, incremental_duration))

Construct_Flat_from_incremental_duration ==
    /\ pc = "idle"
    /\ \E unit \in TimeUnits,
          rate \in RateSamples,
          incremental_duration \in DurationSamples :
           Return([model |-> "Flat", ctor |-> "from_incremental_duration", unit |-> unit,
                   rate |-> rate, incremental_duration |-> incremental_duration],
                  Flat_from_incremental_duration(unit, rate, incremental_duration))

Construct_Flat_from_incremental_volume ==
    /\ pc = "idle"
    /\ \E unit \in TimeUnits,
          rate \in RateSamples,
          incremental_volume \in VolumeSamples :
           Return([model |-> "Flat", ctor |-> "from_incremental_volume", unit |-> unit,
                   rate |-> rate, incremental_volume |-> incremental_volume],
                  Flat_from_incremental_volume(unit, rate, incremental_volume))

Construct_Linear_from_incremental_duration ==
    /\ pc = "idle"
    /\ \E unit \in TimeUnits,
          initial_rate \in RateSamples,
          decline_rate \in DeclineSamples,
          incremental_duration \in DurationSamples :
           Return([model |-> "Linear", ctor |-> "from_incremental_duration", unit |-> unit,
                   initial_rate |-> initial_rate,
                   decline_rate |-> decline_rate,
                   incremental_duration |-> incremental_duration],
                  Linear_from_incremental_duration(unit, initial_rate, decline_rate,
                                                   incremental_duration))

Construct_Linear_from_incremental_volume ==
    /\ pc = "idle"
    /\ \E unit \in TimeUnits,
          initial_rate \in RateSamples,
          decline_rate \in DeclineSamples,
          incremental_volume \in VolumeSamples :
           Return([model |-> "Linear", ctor |-> "from_incremental_volume", unit |-> unit,
                   initial_rate |-> initial_rate,
                   decline_rate |-> decline_rate,
                   incremental_volume |-> incremental_volume],
                  Linear_from_incremental_volume(unit, initial_rate, decline_rate,
                                                 incremental_volume))

Construct_Linear_from_final_rate ==
    /\ pc = "idle"
    /\ \E unit \in TimeUnits,
          initial_rate \in RateSamples,
          decline_rate \in DeclineSamples,
          final_rate \in RateSamples :
           Return([model |-> "Linear", ctor |-> "from_final_rate", unit |-> unit,
                   initial_rate |-> initial_rate,
                   decline_rate |-> decline_rate,
                   final_rate |-> final_rate],
                  Linear_from_final_rate(unit, initial_rate, decline_rate, final_rate))

Construct_Exponential_from_incremental_duration ==
    /\ pc = "idle"
    /\ \E unit \in TimeUnits,
          initial_rate \in RateSamples,
          decline_rate \in DeclineSamples,
          incremental_duration \in DurationSamples :
           Return([model |-> "Exponential", ctor |-> "from_incremental_duration", unit |-> unit,
                   initial_rate |-> initial_rate,
                   decline_rate |-> decline_rate,
                   incremental_duration |-> incremental_duration],
                  Exponential_from_incremental_duration(unit, initial_rate, decline_rate,
                                                        incremental_duration))

Construct_Exponential_from_incremental_volume ==
    /\ pc = "idle"
    /\ \E unit \in TimeUnits,
          initial_rate \in RateSamples,
          decline_rate \in DeclineSamples,
          incremental_volume \in VolumeSamples :
           Return([model |-> "Exponential", ctor |-> "from_incremental_volume", unit |-> unit,
                   initial_rate |-> initial_rate,
                   decline_rate |-> decline_rate,
                   incremental_volume |-> incremental_volume],
                  Exponential_from_incremental_volume(unit, initial_rate, decline_rate,
                                                      incremental_volume))

Construct_Exponential_from_final_rate ==
    /\ pc = "idle"
    /\ \E unit \in TimeUnits,
          initial_rate \in RateSamples,
          decline_rate \in DeclineSamples,
          final_rate \in RateSamples :
           Return([model |-> "Exponential", ctor |-> "from_final_rate", unit |-> unit,
                   initial_rate |-> initial_rate,
                   decline_rate |-> decline_rate,
                   final_rate |-> final_rate],
                  Exponential_from_final_rate(unit, initial_rate, decline_rate,
                                              final_rate))

Construct_Harmonic_from_incremental_duration ==
    /\ pc = "idle"
    /\ \E unit \in TimeUnits,
          initial_rate \in RateSamples,
          initial_decline_rate \in DeclineSamples,
          incremental_duration \in DurationSamples :
           Return([model |-> "Harmonic", ctor |-> "from_incremental_duration", unit |-> unit,
                   initial_rate |-> initial_rate,
                   initial_decline_rate |-> initial_decline_rate,
                   incremental_duration |-> incremental_duration],
                  Harmonic_from_incremental_duration(unit, initial_rate, initial_decline_rate,
                                                     incremental_duration))

Construct_Harmonic_from_incremental_volume ==
    /\ pc = "idle"
    /\ \E unit \in TimeUnits,
          initial_rate \in RateSamples,
          initial_decline_rate \in DeclineSamples,
          incremental_volume \in VolumeSamples :
           Return([model |-> "Harmonic", ctor |-> "from_incremental_volume", unit |-> unit,
                   initial_rate |-> initial_rate,
                   initial_decline_rate |-> initial_decline_rate,
                   incremental_volume |-> incremental_volume],
                  Harmonic_from_incremental_volume(unit, initial_rate, initial_decline_rate,
                                                   incremental_volume))

Construct_Harmonic_from_final_decline_rate ==
    /\ pc = "idle"
    /\ \E unit \in TimeUnits,
          initial_rate \in RateSamples,
          initial_decline_rate \in FinalDeclineSamples,
          final_decline_rate \in FinalDeclineSamples :
           Return([model |-> "Harmonic", ctor |-> "from_final_decline_rate", unit |-> unit,
                   initial_rate |-> initial_rate,
                   initial_decline_rate |-> initial_decline_rate,
                   final_decline_rate |-> final_decline_rate],
                  Harmonic_from_final_decline_rate(unit, initial_rate, initial_decline_rate,
                                                   final_decline_rate))

Construct_Harmonic_from_final_rate ==
    /\ pc = "idle"
    /\ \E unit \in TimeUnits,
          initial_rate \in RateSamples,
          initial_decline_rate \in DeclineSamples,
          final_rate \in RateSamples :
           Return([model |-> "Harmonic", ctor |-> "from_final_rate", unit |-> unit,
                   initial_rate |-> initial_rate,
                   initial_decline_rate |-> initial_decline_rate,
                   final_rate |-> final_rate],
                  Harmonic_from_final_rate(unit, initial_rate, initial_decline_rate,
                                           final_rate))

Construct_Hyperbolic_from_incremental_duration ==
    /\ pc = "idle"
    /\ \E unit \in TimeUnits,
          initial_rate \in RateSamples,
          initial_decline_rate \in DeclineSamples,
          incremental_duration \in DurationSamples,
          exponent \in ExponentSamples :
           Return([model |-> "Hyperbolic", ctor |-> "from_incremental_duration", unit |-> unit,
                   initial_rate |-> initial_rate,
                   initial_decline_rate |-> initial_decline_rate,
                   incremental_duration |-> incremental_duration,
                   exponent |-> exponent],
                  Hyperbolic_from_incremental_duration(unit, initial_rate, initial_decline_rate,
                                                       incremental_duration, exponent))

Construct_Hyperbolic_from_incremental_volume ==
    /\ pc = "idle"
    /\ \E unit \in TimeUnits,
          initial_rate \in RateSamples,
          initial_decline_rate \in DeclineSamples,
          incremental_volume \in VolumeSamples,
          exponent \in ExponentSamples :
           Return([model |-> "Hyperbolic", ctor |-> "from_incremental_volume", unit |-> unit,
                   initial_rate |-> initial_rate,
                   initial_decline_rate |-> initial_decline_rate,
                   incremental_volume |-> incremental_volume,
                   exponent |-> exponent],
                  Hyperbolic_from_incremental_volume(unit, initial_rate, initial_decline_rate,
                                                     incremental_volume, exponent))

Construct_Hyperbolic_from_final_decline_rate ==
    /\ pc = "idle"
    /\ \E unit \in TimeUnits,
          initial_rate \in RateSamples,
          initial_decline_rate \in FinalDeclineSamples,
          final_decline_rate \in FinalDeclineSamples,
          exponent \in ExponentSamples :
           Return([model |-> "Hyperbolic", ctor |-> "from_final_decline_rate", unit |-> unit,
                   initial_rate |-> initial_rate,
                   initial_decline_rate |-> initial_decline_rate,
                   final_decline_rate |-> final_decline_rate,
                   exponent |-> exponent],
                  Hyperbolic_from_final_decline_rate(unit, initial_rate, initial_decline_rate,
                                                     final_decline_rate, exponent))

Construct_Hyperbolic_from_final_rate ==
    /\ pc = "idle"
    /\ \E unit \in TimeUnits,
          initial_rate \in RateSamples,
          initial_decline_rate \in DeclineSamples,
          final_rate \in RateSamples,
          exponent \in ExponentSamples :
           Return([model |-> "Hyperbolic", ctor |-> "from_final_rate", unit |-> unit,
                   initial_rate |-> initial_rate,
                   initial_decline_rate |-> initial_decline_rate,
                   final_rate |-> final_rate,
                   exponent |-> exponent],
                  Hyperbolic_from_final_rate(unit, initial_rate, initial_decline_rate,
                                             final_rate, exponent))


\* A conversion returns r for the call c; the caller holds what it returned.
Converted(c, r) ==
    /\ pc' = "converted"
    /\ call' = c
    /\ result' = r
    /\ query' = NoQuery

Convert_Nominal_to_secant_effective ==
    /\ pc = "idle"
    /\ \E value \in NominalSamples,
          exponent \in ConversionExponents :
           Converted([model |-> "NominalDeclineRate", ctor |-> "to_secant_effective", value |-> value, exponent |-> exponent],
                     Nominal_to_secant_effective(value, exponent))

Convert_Nominal_to_tangent_effective ==
    /\ pc = "idle"
    /\ \E value \in NominalSamples :
           Converted([model |-> "NominalDeclineRate", ctor |-> "to_tangent_effective", value |-> value],
                     Nominal_to_tangent_effective(value))

Convert_Secant_to_nominal ==
    /\ pc = "idle"
    /\ \E value \in EffectiveSamples,
          exponent \in ConversionExponents :
           Converted([model |-> "SecantEffectiveDeclineRate", ctor |-> "to_nominal", value |-> value, exponent |-> exponent],
                     Secant_to_nominal(value, exponent))

Convert_Secant_to_tangent_effective ==
    /\ pc = "idle"
    /\ \E value \in EffectiveSamples,
          exponent \in ConversionExponents :
           Converted([model |-> "SecantEffectiveDeclineRate", ctor |-> "to_tangent_effective", value |-> value, exponent |-> exponent],
                     Secant_to_tangent_effective(value, exponent))

Convert_Tangent_to_nominal ==
    /\ pc = "idle"
    /\ \E value \in EffectiveSamples :
           Converted([model |-> "TangentEffectiveDeclineRate", ctor |-> "to_nominal", value |-> value],
                     Tangent_to_nominal(value))

Convert_Tangent_to_secant_effective ==
    /\ pc = "idle"
    /\ \E value \in EffectiveSamples,
          exponent \in ConversionExponents :
           Converted([model |-> "TangentEffectiveDeclineRate", ctor |-> "to_secant_effective", value |-> value, exponent |-> exponent],
                     Tangent_to_secant_effective(value, exponent))

Convert_Time_to_unit ==
    /\ pc = "idle"
    /\ \E value \in QuantitySamples,
          unit \in TimeUnits,
          other \in TimeUnits :
           Converted([model |-> "Time", ctor |-> "to_unit", value |-> value, unit |-> unit, other |-> other],
                     OkRate(to_unit(value, unit, other)))

Convert_ProductionRate_from ==
    /\ pc = "idle"
    /\ \E value \in QuantitySamples,
          unit \in TimeUnits :
       \E other \in TimeUnits \ {unit} :
           Converted([model |-> "ProductionRate", ctor |-> "from", value |-> value, unit |-> unit, other |-> other],
                     OkRate(ProductionRate_from(value, unit, other)))

Convert_Nominal_to_time ==
    /\ pc = "idle"
    /\ \E value \in QuantitySamples,
          unit \in TimeUnits :
       \E other \in TimeUnits \ {unit} :
           Converted([model |-> "NominalDeclineRate", ctor |-> "from", value |-> value, unit |-> unit, other |-> other],
                     OkRate(Nominal_to_time(value, unit, other)))

\* An evaluator is called on the segment held, which it borrows (&self);
\* the caller holds the value returned until it lets go of it.
Evaluated(q) ==
    /\ query' = q
    /\ UNCHANGED <<pc, call, result>>

Evaluate_rate_at_time ==
    /\ pc = "constructed"
    /\ result.tag = "Ok"
    /\ query = NoQuery
    /\ \E time \in TimeSamples(result.seg) :
           Evaluated([op |-> "rate_at_time", time |-> time,
                      value |-> Segment_rate_at_time(result.seg, time)])

Evaluate_incremental_volume_at_time ==
    /\ pc = "constructed"
    /\ result.tag = "Ok"
    /\ query = NoQuery
    /\ \E time \in TimeSamples(result.seg) :
           Evaluated([op |-> "incremental_volume_at_time", time |-> time,
                      value |-> Segment_incremental_volume_at_time(result.seg, time)])

Evaluate_final_rate ==
    /\ pc = "constructed"
    /\ result.tag = "Ok"
    /\ query = NoQuery
    /\ Evaluated([op |-> "final_rate", value |-> Segment_final_rate(result.seg)])

Evaluate_incremental_volume ==
    /\ pc = "constructed"
    /\ result.tag = "Ok"
    /\ query = NoQuery
    /\ Evaluated([op |-> "incremental_volume",
                  value |-> Segment_incremental_volume(result.seg)])

\* The caller lets go of the value an evaluator returned; the segment stays.
Release ==
    /\ pc = "constructed"
    /\ query # NoQuery
    /\ query' = NoQuery
    /\ UNCHANGED <<pc, call, result>>

\* The caller drops the segment, the rate or the error and may go on.
Discard ==
    /\ pc \in {"constructed", "converted"}
    /\ pc' = "idle"
    /\ call' = NoCall
    /\ result' = NoResult
    /\ query' = NoQuery

Next ==
    \/ Construct_Delay_from_incremental_duration
    \/ Construct_Flat_from_incremental_duration
    \/ Construct_Flat_from_incremental_volume
    \/ Construct_Linear_from_incremental_duration
    \/ Construct_Linear_from_incremental_volume
    \/ Construct_Linear_from_final_rate
    \/ Construct_Exponential_from_incremental_duration
    \/ Construct_Exponential_from_incremental_volume
    \/ Construct_Exponential_from_final_rate
    \/ Construct_Harmonic_from_incremental_duration
    \/ Construct_Harmonic_from_incremental_volume
    \/ Construct_Harmonic_from_final_decline_rate
    \/ Construct_Harmonic_from_final_rate
    \/ Construct_Hyperbolic_from_incremental_duration
    \/ Construct_Hyperbolic_from_incremental_volume
    \/ Construct_Hyperbolic_from_final_decline_rate
    \/ Construct_Hyperbolic_from_final_rate
    \/ Convert_Nominal_to_secant_effective
    \/ Convert_Nominal_to_tangent_effective
    \/ Convert_Nominal_to_time
    \/ Convert_Secant_to_nominal
    \/ Convert_Secant_to_tangent_effective
    \/ Convert_Tangent_to_nominal
    \/ Convert_Tangent_to_secant_effective
    \/ Convert_Time_to_unit
    \/ Convert_ProductionRate_from
    \/ Evaluate_rate_at_time
    \/ Evaluate_incremental_volume_at_time
    \/ Evaluate_final_rate
    \/ Evaluate_incremental_volume
    \/ Release
    \/ Discard

Spec == Init /\ [][Next]_vars

(***************************************************************************)
(* Vocabulary of the properties                                            *)
(***************************************************************************)

NumericFields ==
    {"rate", "initial_rate", "final_rate", "decline_rate", "initial_decline_rate",
     "final_decline_rate", "incremental_duration", "incremental_volume", "exponent"}

\* The numeric inputs of a constructor call.
InputsOf(c) == (DOMAIN c) \cap NumericFields

\* The values an input is drawn from.
SamplesOf(f) ==
    CASE f \in {"rate", "initial_rate", "final_rate"} -> RateSamples
      [] f \in {"decline_rate", "initial_decline_rate", "final_decline_rate"} ->
             DeclineSamples
      [] f = "incremental_duration" -> DurationSamples
      [] f = "incremental_volume" -> VolumeSamples
      [] f = "exponent" -> ExponentSamples

\* What the constructor named by the call record c returns.
Invoke(c) ==
    CASE c.model = "Delay" ->
             Delay_from_incremental_duration(c.unit, c.incremental_duration)
      [] c.model = "Flat" /\ c.ctor = "from_incremental_duration" ->
             Flat_from_incremental_duration(c.unit, c.rate, c.incremental_duration)
      [] c.model = "Flat" /\ c.ctor = "from_incremental_volume" ->
             Flat_from_incremental_volume(c.unit, c.rate, c.incremental_volume)
      [] c.model = "Linear" /\ c.ctor = "from_incremental_duration" ->
             Linear_from_incremental_duration(c.unit, c.initial_rate, c.decline_rate,
                                              c.incremental_duration)
      [] c.model = "Linear" /\ c.ctor = "from_incremental_volume" ->
             Linear_from_incremental_volume(c.unit, c.initial_rate, c.decline_rate,
                                            c.incremental_volume)
      [] c.model = "Linear" /\ c.ctor = "from_final_rate" ->
             Linear_from_final_rate(c.unit, c.initial_rate, c.decline_rate, c.final_rate)
      [] c.model = "Exponential" /\ c.ctor = "from_incremental_duration" ->
             Exponential_from_incremental_duration(c.unit, c.initial_rate,
                                                   c.decline_rate,
                                                   c.incremental_duration)
      [] c.model = "Exponential" /\ c.ctor = "from_incremental_volume" ->
             Exponential_from_incremental_volume(c.unit, c.initial_rate, c.decline_rate,
                                                 c.incremental_volume)
      [] c.model = "Exponential" /\ c.ctor = "from_final_rate" ->
             Exponential_from_final_rate(c.unit, c.initial_rate, c.decline_rate,
                                         c.final_rate)
      [] c.model = "Harmonic" /\ c.ctor = "from_incremental_duration" ->
             Harmonic_from_incremental_duration(c.unit, c.initial_rate,
                                                c.initial_decline_rate,
                                                c.incremental_duration)
      [] c.model = "Harmonic" /\ c.ctor = "from_incremental_volume" ->
             Harmonic_from_incremental_volume(c.unit, c.initial_rate,
                                              c.initial_decline_rate,
                                              c.incremental_volume)
      [] c.model = "Harmonic" /\ c.ctor = "from_final_decline_rate" ->
             Harmonic_from_final_decline_rate(c.unit, c.initial_rate,
                                              c.initial_decline_rate,
                                              c.final_decline_rate)
      [] c.model = "Harmonic" /\ c.ctor = "from_final_rate" ->
             Harmonic_from_final_rate(c.unit, c.initial_rate, c.initial_decline_rate,
                                      c.final_rate)
      [] c.model = "Hyperbolic" /\ c.ctor = "from_incremental_duration" ->
             Hyperbolic_from_incremental_duration(c.unit, c.initial_rate,
                                                  c.initial_decline_rate,
                                                  c.incremental_duration, c.exponent)
      [] c.model = "Hyperbolic" /\ c.ctor = "from_incremental_volume" ->
             Hyperbolic_from_incremental_volume(c.unit, c.initial_rate,
                                                c.initial_decline_rate,
                                                c.incremental_volume, c.exponent)
      [] c.model = "Hyperbolic" /\ c.ctor = "from_final_decline_rate" ->
             Hyperbolic_from_final_decline_rate(c.unit, c.initial_rate,
                                                c.initial_decline_rate,
                                                c.final_decline_rate, c.exponent)
      [] c.model = "Hyperbolic" /\ c.ctor = "from_final_rate" ->
             Hyperbolic_from_final_rate(c.unit, c.initial_rate, c.initial_decline_rate,
                                        c.final_rate, c.exponent)

\* A value of the f64 model.
IsF64(x) ==
    /\ DOMAIN x = {"k", "s", "m", "e"}
    /\ x.k \in {"nan", "inf", "fin"}
    /\ x.s \in {0, 1}
    /\ x.m \in 0..(2^PrecisionBits - 1)
    /\ x.k = "fin" /\ x.m # 0 => x.e \in EMin..EMax

\* The (initial) decline rate and initial rate a call passes.
DeclineOf(c) ==
    IF c.model \in {"Linear", "Exponential"} THEN c.decline_rate
    ELSE c.initial_decline_rate

\* The rate, decline rate and (Hyperbolic) exponent of a call pass validation.
CurveInputsValid(c) ==
    /\ ~IsErr(validate_non_zero_positive_rate(c.initial_rate, "initial rate"))
    /\ ~IsErr(validate_non_zero_decline_rate(DeclineOf(c), "decline rate"))
    /\ c.model = "Hyperbolic" =>
           ~IsErr(validate_hyperbolic_exponent(c.exponent, DeclineOf(c)))

Returned == pc = "constructed"

ReturnedSegment == pc = "constructed" /\ result.tag = "Ok"

ReturnedError(kind) ==
    pc = "constructed" /\ result.tag = "Err" /\ result.kind = kind

(***************************************************************************)
(* One segment shared read-only by several callers.  Each evaluator takes  *)
(* &self: a caller borrows the segment (Begin), the evaluator reads its    *)
(* fields and returns (Finish), the caller drops the value (Release).      *)
(* Here pc and query hold one entry per caller.                            *)
(***************************************************************************)

Callers == {1, 2}

\* One segment of each type, as its constructor returns it.
SharedCalls ==
    {[model |-> "Delay", ctor |-> "from_incremental_duration", unit |-> "AverageDaysTime",
      incremental_duration |-> FromInt(4)],
     [model |-> "Flat", ctor |-> "from_incremental_duration", unit |-> "AverageDaysTime",
      rate |-> FromInt(50), incremental_duration |-> FromInt(4)],
     [model |-> "Linear", ctor |-> "from_incremental_duration", unit |-> "AverageDaysTime",
      initial_rate |-> FromInt(100), decline_rate |-> Dyadic(1, -10),
      incremental_duration |-> FromInt(4)],
     [model |-> "Exponential", ctor |-> "from_incremental_duration",
      unit |-> "AverageYearsTime", initial_rate |-> FromInt(100),
      decline_rate |-> Dyadic(1, -1), incremental_duration |-> FromInt(4)],
     [model |-> "Harmonic", ctor |-> "from_incremental_duration",
      unit |-> "AverageYearsTime", initial_rate |-> FromInt(100),
      initial_decline_rate |-> Dyadic(-1, -1), incremental_duration |-> One],
     [model |-> "Hyperbolic", ctor |-> "from_incremental_duration",
      unit |-> "AverageYearsTime", initial_rate |-> FromInt(100),
      initial_decline_rate |-> Two, incremental_duration |-> FromInt(4),
      exponent |-> Dyadic(1, -1)]}

\* What the evaluator named by the request q returns on the segment self.
EvaluationOf(self, q) ==
    CASE q.op = "rate_at_time" -> Segment_rate_at_time(self, q.time)
      [] q.op = "incremental_volume_at_time" ->
             Segment_incremental_volume_at_time(self, q.time)
      [] q.op = "final_rate" -> Segment_final_rate(self)
      [] q.op = "incremental_volume" -> Segment_incremental_volume(self)

InitShared ==
    /\ pc = [caller \in Callers |-> "idle"]
    /\ call \in SharedCalls
    /\ result = Invoke(call)
    /\ query = [caller \in Callers |-> NoQuery]

\* A caller calls an evaluator on the shared segment.
Begin_evaluation(caller) ==
    /\ pc[caller] = "idle"
    /\ result.tag = "Ok"
    /\ \E q \in [op : {"rate_at_time", "incremental_volume_at_time"},
                 time : TimeSamples(result.seg)]
              \cup {[op |-> "final_rate"], [op |-> "incremental_volume"]} :
           query' = [query EXCEPT ![caller] = q]
    /\ pc' = [pc EXCEPT ![caller] = "running"]
    /\ UNCHANGED <<call, result>>

\* Faulty variant: an evaluation past the duration stretches the segment to
\* the time asked for.
Finish_evaluation_stretching(caller) ==
    /\ pc[caller] = "running"
    /\ query' = [query EXCEPT ![caller] =
                     [field \in DOMAIN query[caller] \cup {"value"} |->
                          IF field = "value"
                          THEN EvaluationOf(result.seg, query[caller])
                          ELSE query[caller][field]]]
    /\ pc' = [pc EXCEPT ![caller] = "returned"]
    /\ result' = IF "time" \in DOMAIN query[caller]
                     /\ FGt(query[caller].time, result.seg.incremental_duration)
                 THEN [result EXCEPT !.seg.incremental_duration = query[caller].time]
                 ELSE result
    /\ UNCHANGED call

\* The evaluator reads the segment and returns its value to the caller.
Finish_evaluation(caller) ==
    /\ pc[caller] = "running"
    /\ query' = [query EXCEPT ![caller] =
                     [field \in DOMAIN query[caller] \cup {"value"} |->
                          IF field = "value"
                          THEN EvaluationOf(result.seg, query[caller])
                          ELSE query[caller][field]]]
    /\ pc' = [pc EXCEPT ![caller] = "returned"]
    /\ UNCHANGED <<call, result>>

\* The caller lets go of the value; the segment stays.
Release_value(caller) ==
    /\ pc[caller] = "returned"
    /\ pc' = [pc EXCEPT ![caller] = "idle"]
    /\ query' = [query EXCEPT ![caller] = NoQuery]
    /\ UNCHANGED <<call, result>>

NextShared ==
    \E caller \in Callers :
        \/ Begin_evaluation(caller)
        \/ Finish_evaluation(caller)
        \/ Release_value(caller)

SpecShared == InitShared /\ [][NextShared]_vars

(***************************************************************************)
(* Properties                                                              *)
(***************************************************************************)

\* C1: whenever a constructor returns a segment, the segment's
\* incremental_duration is finite, carries no negative sign (so it is neither
\* negative nor -0), and is at most 1000 years once converted to years.
C1_DurationWithinBounds ==
    ReturnedSegment =>
        LET d == result.seg.incremental_duration
        IN  /\ is_finite(d)
            /\ is_sign_positive(d)
            /\ FLe(to_unit(d, result.seg.unit, "AverageYearsTime"), MAX_DURATION_YEARS)

\* C1 is exercised: a constructor solved a non-zero duration from a volume.
C1_Witness ==
    /\ ReturnedSegment
    /\ call.ctor = "from_incremental_volume"
    /\ FGt(result.seg.incremental_duration, Zero(0))

\* C2: at every time strictly after the segment's incremental_duration,
\* rate_at_time returns the very value of final_rate() and
\* incremental_volume_at_time the very value of incremental_volume().
C2_ClampedPastDuration ==
    /\ (/\ ReturnedSegment
        /\ query.op = "rate_at_time"
        /\ FGt(query.time, result.seg.incremental_duration))
           => query.value = Segment_final_rate(result.seg)
    /\ (/\ ReturnedSegment
        /\ query.op = "incremental_volume_at_time"
        /\ FGt(query.time, result.seg.incremental_duration))
           => query.value = Segment_incremental_volume(result.seg)

\* C2 is exercised: an Exponential segment was evaluated past its duration,
\* where the curve itself would have given another rate.
C2_Witness ==
    /\ ReturnedSegment
    /\ call.model = "Exponential"
    /\ query.op = "rate_at_time"
    /\ is_finite(query.time)
    /\ FGt(query.time, result.seg.incremental_duration)
    /\ query.value # Exponential_rate_at_time_without_clamping(result.seg, query.time)

\* C3: a constructor given NaN or an infinity for any numeric input returns an
\* error; when that input is the only invalid one (some value in its place
\* makes the call succeed), the error is InvalidInput.  The second half is
\* stated as its contrapositive: an error of another kind means no value in
\* place of that input makes the call succeed.
C3_NonFiniteRejected ==
    Returned =>
        \A f \in InputsOf(call) :
            ~is_finite(call[f]) =>
                /\ result.tag = "Err"
                /\ result.kind # "InvalidInput" =>
                       \A v \in SamplesOf(f) : Invoke([call EXCEPT ![f] = v]).tag # "Ok"

\* C3 is exercised: an infinite exponent was the only invalid input of a
\* Hyperbolic constructor.
C3_Witness ==
    /\ Returned
    /\ call.model = "Hyperbolic"
    /\ is_infinite(call.exponent)
    /\ \E v \in ExponentSamples : Invoke([call EXCEPT !.exponent = v]).tag = "Ok"
    /\ result.tag = "Err"
    /\ result.kind = "InvalidInput"

\* C4: a constructor returns either a segment or exactly one error of the
\* six kinds, whatever its inputs; an evaluator returns an f64 for every time.
C4_Total ==
    /\ Returned =>
           \/ /\ DOMAIN result = {"tag", "seg"}
              /\ result.tag = "Ok"
           \/ /\ DOMAIN result = {"tag", "kind", "reason"}
              /\ result.tag = "Err"
              /\ result.kind \in ErrorKinds
    /\ query # NoQuery => IsF64(query.value)

\* C4 is exercised: an evaluator was called with NaN for the time on a
\* segment built from a solved duration.
C4_Witness ==
    /\ ReturnedSegment
    /\ call.ctor = "from_final_rate"
    /\ query.op = "incremental_volume_at_time"
    /\ is_nan(query.time)

\* from_final_rate was called with inputs that each pass validation.
FinalRateInputsValid ==
    /\ Returned
    /\ call.ctor = "from_final_rate"
    /\ CurveInputsValid(call)
    /\ ~IsErr(validate_non_zero_positive_rate(call.final_rate, "final rate"))

\* The final rate lies on the side of the initial rate that the sign of the
\* decline rate does not permit.
DirectionMismatch ==
    \/ FLt(call.final_rate, call.initial_rate) /\ FLt(DeclineOf(call), Zero(0))
    \/ FGt(call.final_rate, call.initial_rate) /\ FGt(DeclineOf(call), Zero(0))

\* C5: from_final_rate (Linear, Exponential, Harmonic, Hyperbolic), given
\* otherwise valid inputs whose final rate lies in the direction the sign of
\* the decline rate forbids, returns DeclineRateWrongSign.
C5_WrongSignRejected ==
    FinalRateInputsValid /\ DirectionMismatch => ReturnedError("DeclineRateWrongSign")

\* C5, outside Linear: Exponential, Harmonic and Hyperbolic do return
\* DeclineRateWrongSign on a direction mismatch.
C5_WrongSignRejectedOutsideLinear ==
    FinalRateInputsValid /\ DirectionMismatch /\ call.model # "Linear"
        => ReturnedError("DeclineRateWrongSign")

\* C5, Linear: a direction mismatch is refused, but as an invalid duration.
C5_LinearMismatchIsInvalidInput ==
    FinalRateInputsValid /\ DirectionMismatch /\ call.model = "Linear"
        => ReturnedError("InvalidInput") /\ result.reason[1] = "duration"

\* from_final_decline_rate was called with inputs that each pass validation.
FinalDeclineRateInputsValid ==
    /\ Returned
    /\ call.ctor = "from_final_decline_rate"
    /\ CurveInputsValid(call)
    /\ ~IsErr(validate_non_zero_decline_rate(call.final_decline_rate,
                                             "final decline rate"))

\* The call asks for a segment that ends where it starts.
EqualEndpoints ==
    \/ FinalRateInputsValid /\ FEq(call.final_rate, call.initial_rate)
    \/ FinalDeclineRateInputsValid
           /\ FEq(call.final_decline_rate, call.initial_decline_rate)

\* The segment returned has duration 0 and volume 0.
ZeroSegmentReturned ==
    /\ ReturnedSegment
    /\ IsZero(result.seg.incremental_duration)
    /\ IsZero(Segment_incremental_volume(result.seg))

\* C6: from_final_rate with the final rate equal to the initial rate, and
\* from_final_decline_rate with the final decline rate equal to the initial
\* one, succeed for otherwise valid inputs (decline rate of either sign) and
\* return a segment of duration 0 and volume 0.
C6_EqualEndpointsGiveZeroSegment ==
    EqualEndpoints => ZeroSegmentReturned

\* C6, outside Linear inclines: every other model and sign returns the zero
\* segment.
C6_ZeroSegmentOutsideLinearIncline ==
    EqualEndpoints /\ ~(call.model = "Linear" /\ FLt(call.decline_rate, Zero(0)))
        => ZeroSegmentReturned

\* C6, Linear incline: equal rates are refused as a negative duration.
C6_LinearInclineEqualRatesRefused ==
    EqualEndpoints /\ call.model = "Linear" /\ FLt(call.decline_rate, Zero(0))
        => ReturnedError("InvalidInput") /\ result.reason[1] = "duration"

\* C5 is exercised: Linear::from_final_rate met a direction mismatch.
C5_Witness ==
    /\ FinalRateInputsValid
    /\ DirectionMismatch
    /\ call.model = "Linear"
    /\ ReturnedError("InvalidInput")

\* C6 is exercised: Linear::from_final_rate met equal rates on an incline.
C6_Witness ==
    /\ FinalRateInputsValid
    /\ call.model = "Linear"
    /\ FEq(call.final_rate, call.initial_rate)
    /\ FLt(call.decline_rate, Zero(0))
    /\ ReturnedError("InvalidInput")

\* C7: on a segment any constructor returned, incremental_volume_at_time(t)
\* for 0 <= t <= incremental_duration is never both finite and negative.
C7_VolumeNeverNegative ==
    (/\ ReturnedSegment
     /\ query.op = "incremental_volume_at_time"
     /\ FLe(Zero(0), query.time)
     /\ FLe(query.time, result.seg.incremental_duration))
        => ~is_finite(query.value) \/ FGe(query.value, Zero(0))

\* C7 is exercised: an Exponential segment was evaluated strictly inside its
\* duration and gave a positive volume.
C7_Witness ==
    /\ ReturnedSegment
    /\ call.model = "Exponential"
    /\ query.op = "incremental_volume_at_time"
    /\ FLt(Zero(0), query.time)
    /\ FLt(query.time, result.seg.incremental_duration)
    /\ is_finite(query.value)
    /\ FGt(query.value, Zero(0))

\* The duration a Harmonic constructor is given or solves for.
HarmonicDuration(c) ==
    CASE c.ctor = "from_incremental_duration" -> c.incremental_duration
      [] c.ctor = "from_incremental_volume" ->
             FDiv(exp_m1(FDiv(FMul(c.incremental_volume, c.initial_decline_rate),
                              c.initial_rate)),
                  c.initial_decline_rate)
      [] c.ctor = "from_final_decline_rate" ->
             FSub(FDiv(One, c.final_decline_rate), FDiv(One, c.initial_decline_rate))
      [] c.ctor = "from_final_rate" ->
             FDiv(FSub(c.initial_rate, c.final_rate),
                  FMul(c.initial_decline_rate, c.final_rate))

\* A Harmonic constructor was called with inputs that pass every check made
\* before the duration is looked at, and the duration is finite and not
\* negative.
HarmonicReachesDurationCheck ==
    /\ Returned
    /\ call.model = "Harmonic"
    /\ CurveInputsValid(call)
    /\ CASE call.ctor = "from_incremental_duration" -> TRUE
         [] call.ctor = "from_incremental_volume" ->
                ~IsErr(validate_incremental_volume(call.incremental_volume))
         [] call.ctor = "from_final_decline_rate" ->
                /\ ~IsErr(validate_non_zero_decline_rate(call.final_decline_rate,
                                                         "final decline rate"))
                /\ is_sign_positive(call.final_decline_rate)
                       = is_sign_positive(call.initial_decline_rate)
         [] call.ctor = "from_final_rate" ->
                /\ ~IsErr(validate_non_zero_positive_rate(call.final_rate,
                                                          "final rate"))
                /\ ~IsErr(validate_decline_rate_sign(call.initial_decline_rate,
                                                     call.initial_rate,
                                                     call.final_rate))
    /\ ~IsErr(validate_positive(HarmonicDuration(call), "duration"))

\* The duration of the call reaches the singularity t_max = -1/Di of an incline.
AtOrPastSingularity ==
    /\ FLt(call.initial_decline_rate, Zero(0))
    /\ FGe(HarmonicDuration(call), FDiv(MinusOne, call.initial_decline_rate))

WithinMaxDuration ==
    FLe(to_unit(HarmonicDuration(call), call.unit, "AverageYearsTime"),
        MAX_DURATION_YEARS)

\* C8: a Harmonic constructor with Di < 0 returns DurationTooLong when the
\* duration given or solved is at or past t_max = -1/Di, and accepts a
\* duration strictly below t_max that is within 1000 years; with Di > 0 the
\* only bound on the duration is the 1000 years.
C8_HarmonicSingularity ==
    HarmonicReachesDurationCheck =>
        IF AtOrPastSingularity \/ ~WithinMaxDuration
        THEN ReturnedError("DurationTooLong")
        ELSE /\ ReturnedSegment
             /\ result.seg.incremental_duration = HarmonicDuration(call)

\* C8 is exercised: a duration exactly at t_max, within 1000 years, was
\* refused on an incline.
C8_Witness ==
    /\ HarmonicReachesDurationCheck
    /\ AtOrPastSingularity
    /\ WithinMaxDuration
    /\ HarmonicDuration(call) = FDiv(MinusOne, call.initial_decline_rate)
    /\ ReturnedError("DurationTooLong")

\* A from_incremental_volume call of the given model whose inputs each pass
\* validation.
VolumeInputsValid(model) ==
    /\ Returned
    /\ call.model = model
    /\ call.ctor = "from_incremental_volume"
    /\ CurveInputsValid(call)
    /\ ~IsErr(validate_incremental_volume(call.incremental_volume))

\* C9: Exponential::from_incremental_volume with Di > 0 returns
\* CannotSolveDecline exactly when the volume is at least qi/Di - 1e-12, and
\* never returns it when Di < 0.
C9_ExponentialMaxVolume ==
    VolumeInputsValid("Exponential") =>
        IF FGt(call.decline_rate, Zero(0))
        THEN ReturnedError("CannotSolveDecline")
                 <=> FGe(call.incremental_volume,
                         FSub(FDiv(call.initial_rate, call.decline_rate), EPSILON))
        ELSE ~ReturnedError("CannotSolveDecline")

\* C9 is exercised: a volume below qi/Di, but within the tolerance of it, was
\* refused.
C9_Witness ==
    /\ VolumeInputsValid("Exponential")
    /\ FGt(call.decline_rate, Zero(0))
    /\ FLt(call.incremental_volume, FDiv(call.initial_rate, call.decline_rate))
    /\ FGt(call.incremental_volume, Zero(0))
    /\ ReturnedError("CannotSolveDecline")

\* The exponent of the call lies strictly between 0 and 1 and Di > 0.
HasMaxVolume ==
    /\ FGt(call.initial_decline_rate, Zero(0))
    /\ FGt(call.exponent, Zero(0))
    /\ FLt(call.exponent, One)

\* C10: Hyperbolic::from_incremental_volume with Di > 0 and 0 < b < 1 returns
\* CannotSolveDecline exactly when the volume is at least
\* qi/(Di*(1-b)) - 1e-12; with any other exponent, or with Di < 0, it never
\* returns CannotSolveDecline.
C10_HyperbolicMaxVolume ==
    VolumeInputsValid("Hyperbolic") =>
        IF HasMaxVolume
        THEN ReturnedError("CannotSolveDecline")
                 <=> FGe(call.incremental_volume,
                         FSub(FDiv(call.initial_rate,
                                   FMul(call.initial_decline_rate,
                                        FSub(One, call.exponent))),
                              EPSILON))
        ELSE ~ReturnedError("CannotSolveDecline")

\* C10 is exercised: with Di > 0 and 0 < b < 1 a volume below the maximum,
\* but within the tolerance of it, was refused.
C10_Witness ==
    /\ VolumeInputsValid("Hyperbolic")
    /\ HasMaxVolume
    /\ FGt(call.incremental_volume, Zero(0))
    /\ FLt(call.incremental_volume,
           FDiv(call.initial_rate,
                FMul(call.initial_decline_rate, FSub(One, call.exponent))))
    /\ ReturnedError("CannotSolveDecline")

\* A Hyperbolic constructor call whose other inputs each pass the validation
\* that comes before that of the exponent.
ExponentReached ==
    /\ Returned
    /\ call.model = "Hyperbolic"
    /\ ~IsErr(validate_non_zero_positive_rate(call.initial_rate, "initial rate"))
    /\ ~IsErr(validate_non_zero_decline_rate(call.initial_decline_rate,
                                             "initial decline rate"))
    /\ call.ctor = "from_incremental_duration" =>
           ~IsErr(validate_duration(call.unit, call.incremental_duration))
    /\ call.ctor = "from_incremental_volume" =>
           ~IsErr(validate_incremental_volume(call.incremental_volume))
    /\ call.ctor = "from_final_decline_rate" =>
           ~IsErr(validate_non_zero_decline_rate(call.final_decline_rate,
                                                 "final decline rate"))
    /\ call.ctor = "from_final_rate" =>
           ~IsErr(validate_non_zero_positive_rate(call.final_rate, "final rate"))

\* The verdict on an exponent b with the initial decline rate d, by priority.
ExponentVerdict(b, d) ==
    IF ~is_finite(b) THEN "InvalidInput"
    ELSE IF FLe(abs(b), EPSILON) THEN "InvalidInput"
    ELSE IF FLe(abs(FSub(b, One)), EPSILON) THEN "InvalidInput"
    ELSE IF FGt(abs(b), FromInt(100)) THEN "ExponentTooLarge"
    ELSE IF (b.s = 0) # (d.s = 0) THEN "DeclineRateWrongSign"
    ELSE "accepted"

\* The error returned is a complaint about the exponent.
ExponentRefused ==
    \/ ReturnedError("ExponentTooLarge")
    \/ ReturnedError("InvalidInput") /\ result.reason[1] = "exponent"
    \/ ReturnedError("DeclineRateWrongSign") /\ call.ctor # "from_final_rate"

\* C11: the exponent of a Hyperbolic segment is checked in the order
\* non-finite -> InvalidInput, |b| <= 1e-12 -> InvalidInput, |b - 1| <= 1e-12
\* -> InvalidInput, |b| > 100 -> ExponentTooLarge, sign unlike that of the
\* initial decline rate -> DeclineRateWrongSign, and is accepted otherwise
\* (|b| = 100 included).
C11_ExponentPriority ==
    ExponentReached =>
        IF ExponentVerdict(call.exponent, call.initial_decline_rate) = "accepted"
        THEN ~ExponentRefused
        ELSE /\ ReturnedError(ExponentVerdict(call.exponent,
                                              call.initial_decline_rate))
             /\ result.kind = "InvalidInput" => result.reason[1] = "exponent"

\* C11 is exercised: an exponent of magnitude above 100 whose sign is also
\* unlike that of the decline rate was refused as ExponentTooLarge.
C11_Witness ==
    /\ ExponentReached
    /\ FGt(abs(call.exponent), FromInt(100))
    /\ is_finite(call.exponent)
    /\ is_sign_negative(call.exponent)
    /\ is_sign_positive(call.initial_decline_rate)
    /\ ReturnedError("ExponentTooLarge")

\* C11, the accepted side: an exponent of exactly 100 and one just above the
\* zero tolerance have passed.
C11_BoundaryAccepted ==
    /\ ExponentReached
    /\ call.exponent \in {FromInt(100), Small}
    /\ ReturnedSegment

\* A Linear::from_incremental_duration call whose three inputs each pass
\* validation.
LinearDurationInputsValid ==
    /\ Returned
    /\ call.model = "Linear"
    /\ call.ctor = "from_incremental_duration"
    /\ CurveInputsValid(call)
    /\ ~IsErr(validate_duration(call.unit, call.incremental_duration))

\* qi * (1 - Di * t), the rate the call's segment would end at.
LinearEndRate ==
    mul_add(call.initial_rate, FNeg(FMul(call.decline_rate, call.incremental_duration)),
            call.initial_rate)

\* The call was refused with a complaint about the final rate.
FinalRateRefused ==
    /\ ReturnedError("InvalidInput")
    /\ result.reason[1] = "final rate"

\* C12 as stated: Linear::from_incremental_duration accepts a duration whose
\* final rate qi*(1 - Di*t) is non-negative, a final rate of exactly zero
\* included, and returns InvalidInput when the final rate is negative.
C12_NonNegativeFinalRateAccepted ==
    LinearDurationInputsValid =>
        IF FGe(LinearEndRate, Zero(0)) THEN ReturnedSegment ELSE FinalRateRefused

\* C12, amended: Linear::from_incremental_duration accepts a duration whose
\* final rate qi*(1 - Di*t) is finite and above 1e-12, and stores it; it
\* returns InvalidInput about the final rate when the final rate is negative,
\* zero, within 1e-12 of zero, or not finite.
C12_PositiveFinalRateAccepted ==
    LinearDurationInputsValid =>
        IF is_finite(LinearEndRate) /\ FGt(LinearEndRate, EPSILON)
        THEN /\ ReturnedSegment
             /\ result.seg.incremental_duration = call.incremental_duration
        ELSE FinalRateRefused

\* C12 is exercised: a duration at which the rate reaches exactly zero was
\* refused.
C12_Witness ==
    /\ LinearDurationInputsValid
    /\ IsZero(LinearEndRate)
    /\ FGt(call.incremental_duration, Zero(0))
    /\ FinalRateRefused

\* C12, the other two sides: a negative final rate was refused, a positive
\* one accepted.
C12_NegativeRefused ==
    /\ LinearDurationInputsValid
    /\ FLt(LinearEndRate, Zero(0))
    /\ FinalRateRefused

C12_PositiveAccepted ==
    /\ LinearDurationInputsValid
    /\ is_finite(LinearEndRate)
    /\ FGt(LinearEndRate, EPSILON)
    /\ FGt(call.incremental_duration, Zero(0))
    /\ ReturnedSegment

\* A Linear::from_incremental_volume call with valid inputs and a volume that
\* is not effectively zero: the quadratic is solved.
LinearVolumeSolved ==
    /\ VolumeInputsValid("Linear")
    /\ ~is_effectively_zero(call.incremental_volume)

\* qi^2 - 2 * Di * qi * V
LinearDiscriminant ==
    FSub(FMul(call.initial_rate, call.initial_rate),
         FMul(FMul(FMul(Two, call.decline_rate), call.initial_rate),
              call.incremental_volume))

\* The rounding error allowed on a volume of the scale qi/|Di| + 2V: eight
\* units in the last place of the significand.
VolumeTolerance(initial_rate, decline_rate, volume) ==
    FMul(Dyadic(1, 3 - PrecisionBits),
         FAdd(FDiv(initial_rate, abs(decline_rate)), FMul(Two, volume)))

\* C13: Linear::from_incremental_volume returns CannotSolveDecline exactly
\* when the discriminant qi^2 - 2*Di*qi*V is negative (only with Di > 0 and
\* V at least qi/(2*Di)); when it succeeds the duration t is a non-negative
\* root of the quadratic (the linear volume at t is V up to rounding), the
\* smaller one: Di * t <= 1 when Di > 0.
C13_SmallerPositiveRoot ==
    LinearVolumeSolved =>
        /\ ReturnedError("CannotSolveDecline") <=> FLt(LinearDiscriminant, Zero(0))
        /\ ReturnedError("CannotSolveDecline") =>
               /\ FGt(call.decline_rate, Zero(0))
               /\ FGe(call.incremental_volume,
                      FDiv(call.initial_rate, FMul(Two, call.decline_rate)))
        /\ ReturnedSegment =>
               /\ FGe(result.seg.incremental_duration, Zero(0))
               /\ FGt(call.decline_rate, Zero(0)) =>
                      FLe(FMul(call.decline_rate, result.seg.incremental_duration), One)
               /\ FLe(abs(FSub(Linear_incremental_volume(result.seg),
                               call.incremental_volume)),
                      VolumeTolerance(call.initial_rate, call.decline_rate,
                                      call.incremental_volume))

\* C13 is exercised: with Di > 0 and a positive discriminant (two distinct
\* roots) a segment of positive duration was returned.
C13_Witness ==
    /\ LinearVolumeSolved
    /\ FGt(call.decline_rate, Zero(0))
    /\ FGt(LinearDiscriminant, Zero(0))
    /\ ReturnedSegment
    /\ FGt(result.seg.incremental_duration, Zero(0))

\* C13, the other sides: an incline was solved, and a volume above
\* qi/(2*Di) was refused.
C13_InclineSolved ==
    /\ LinearVolumeSolved
    /\ FLt(call.decline_rate, Zero(0))
    /\ ReturnedSegment
    /\ FGt(result.seg.incremental_duration, Zero(0))

C13_Unreachable ==
    /\ LinearVolumeSolved
    /\ FLt(LinearDiscriminant, Zero(0))
    /\ ReturnedError("CannotSolveDecline")

\* The conversion op of the given rate type has returned.
ConversionReturned(model, op) ==
    pc = "converted" /\ call.model = model /\ call.ctor = op

\* The conversion has returned the error kind.
ConversionFailed(kind) ==
    pc = "converted" /\ result.tag = "Err" /\ result.kind = kind

\* A secant-effective rate of 1 or more was to be converted to nominal or to
\* tangent-effective.
SecantTooHigh ==
    /\ \/ ConversionReturned("SecantEffectiveDeclineRate", "to_nominal")
       \/ ConversionReturned("SecantEffectiveDeclineRate", "to_tangent_effective")
    /\ FGe(call.value, One)

\* A conversion fails only with DeclineRateTooHigh, and only from an
\* effective rate of 1 or more.
FailsOnlyWhenTooHigh ==
    pc = "converted" /\ result.tag = "Err" =>
        /\ result.kind = "DeclineRateTooHigh"
        /\ call.model \in {"SecantEffectiveDeclineRate", "TangentEffectiveDeclineRate"}
        /\ FGe(call.value, One)

\* C14: for every exponent, b = 0 included, converting a secant-effective
\* rate of 1 or more to nominal or to tangent-effective returns
\* DeclineRateTooHigh; and no conversion of the decline-rate layer fails in
\* another case than an effective source rate of 1 or more.
C14_TooHighRefused ==
    /\ SecantTooHigh => ConversionFailed("DeclineRateTooHigh")
    /\ FailsOnlyWhenTooHigh

\* C14 without the case that fails: a secant-effective rate of 1 or more is
\* refused by to_nominal for every exponent and by to_tangent_effective for
\* every exponent other than 0, and nothing else makes a conversion fail.
C14_TooHighRefusedOutsideZeroExponent ==
    /\ SecantTooHigh
           /\ ~(call.ctor = "to_tangent_effective" /\ FEq(call.exponent, Zero(0)))
           => ConversionFailed("DeclineRateTooHigh")
    /\ FailsOnlyWhenTooHigh

\* C14, the case that fails: to_tangent_effective(0) hands a secant-effective
\* rate of 1 or more back as a tangent-effective rate.
C14_ZeroExponentPassesTooHigh ==
    SecantTooHigh /\ call.ctor = "to_tangent_effective" /\ FEq(call.exponent, Zero(0))
        => result = OkRate(call.value)

\* C14 is exercised: a secant-effective rate of 1 or more was converted to
\* tangent-effective with exponent 0, and was not refused.
C14_Witness ==
    /\ SecantTooHigh
    /\ call.ctor = "to_tangent_effective"
    /\ FEq(call.exponent, Zero(0))
    /\ result.tag = "Ok"

\* C14, the side that holds: a secant-effective rate of 1 or more was refused
\* by to_nominal with exponent 0.
C14_RefusedAtZeroExponent ==
    /\ SecantTooHigh
    /\ call.ctor = "to_nominal"
    /\ FEq(call.exponent, Zero(0))
    /\ ConversionFailed("DeclineRateTooHigh")

\* The conversion op of the given rate type has returned, and was asked for
\* an exponent of exactly 0 (of either sign).
ReturnedAtZeroExponent(model, op) ==
    ConversionReturned(model, op) /\ FEq(call.exponent, Zero(0))

\* C15: with an exponent of exactly 0 the conversions take the
\* tangent-effective route and never divide by the exponent:
\* nominal.to_secant_effective(0) is 1 - e^(-nominal), the tangent-effective
\* value; secant.to_nominal(0) is what to_nominal gives for the same value
\* taken as tangent-effective, -ln(1 - value) or DeclineRateTooHigh from 1
\* on; secant.to_tangent_effective(0) and tangent.to_secant_effective(0)
\* return the value unchanged.
C15_ZeroExponentIsTangent ==
    /\ ReturnedAtZeroExponent("NominalDeclineRate", "to_secant_effective") =>
           /\ result = OkRate(FSub(One, exp(FNeg(call.value))))
           /\ result = Nominal_to_tangent_effective(call.value)
    /\ ReturnedAtZeroExponent("SecantEffectiveDeclineRate", "to_nominal") =>
           /\ result = (IF FGe(call.value, One) THEN Err("DeclineRateTooHigh")
                        ELSE OkRate(FNeg(ln_1p(FNeg(call.value)))))
           /\ result = Tangent_to_nominal(call.value)
    /\ ReturnedAtZeroExponent("SecantEffectiveDeclineRate", "to_tangent_effective") =>
           result = OkRate(call.value)
    /\ ReturnedAtZeroExponent("TangentEffectiveDeclineRate", "to_secant_effective") =>
           result = OkRate(call.value)

\* C15 is exercised: a nominal rate for which the general secant formula at
\* exponent 0 would give another value than the tangent-effective one was
\* converted to secant-effective with exponent 0.
C15_Witness ==
    /\ ReturnedAtZeroExponent("NominalDeclineRate", "to_secant_effective")
    /\ is_finite(call.value)
    /\ result.tag = "Ok"
    /\ FGt(result.value, Zero(0))
    /\ result # Nominal_to_secant_effective_general(call.value, call.exponent)

\* C15, the other conversions at exponent 0 have returned a rate.
C15_SecantToNominalAtZero ==
    /\ ReturnedAtZeroExponent("SecantEffectiveDeclineRate", "to_nominal")
    /\ result.tag = "Ok"
    /\ FGt(result.value, Zero(0))

C15_UnchangedAtZero ==
    /\ ReturnedAtZeroExponent("TangentEffectiveDeclineRate", "to_secant_effective")
    /\ FGt(call.value, Zero(0))
    /\ result.tag = "Ok"

\* x is y up to rounding: within eight units in the last place of y (and of
\* 1), amplified by the cancellation in 1 - effective that the conversion
\* back from an effective rate goes through.
CloseAfter(x, y, effective) ==
    /\ is_finite(x)
    /\ FLe(abs(FSub(x, y)),
           FMul(FMul(Dyadic(1, 3 - PrecisionBits), FAdd(One, abs(y))),
                FAdd(One, FDiv(One, FSub(One, effective)))))

\* A conversion returned Ok(rate) with a rate close to y.
ReturnsClose(r, y, effective) == r.tag = "Ok" /\ CloseAfter(r.value, y, effective)

\* nominal.to_secant_effective(b) has returned a secant-effective rate below
\* 1 for a finite nominal rate and a finite exponent.
SecantBelowOne ==
    /\ ConversionReturned("NominalDeclineRate", "to_secant_effective")
    /\ is_finite(call.value)
    /\ is_finite(call.exponent)
    /\ result.tag = "Ok"
    /\ FLt(result.value, One)

\* nominal.to_tangent_effective() has returned a tangent-effective rate below
\* 1 for a finite nominal rate.
TangentBelowOne ==
    /\ ConversionReturned("NominalDeclineRate", "to_tangent_effective")
    /\ is_finite(call.value)
    /\ result.tag = "Ok"
    /\ FLt(result.value, One)

\* 1 + n * b, the base of the power in the secant formula, is positive.
PositiveBase == FGt(mul_add(call.value, call.exponent, One), Zero(0))

\* The secant-effective rate returned converts back to the nominal rate, and
\* to the tangent-effective rate of the nominal rate.
SecantRoundTrip ==
    /\ ReturnsClose(Secant_to_nominal(result.value, call.exponent), call.value,
                    result.value)
    /\ ReturnsClose(Secant_to_tangent_effective(result.value, call.exponent),
                    Nominal_to_tangent_effective(call.value).value, result.value)

\* The tangent-effective rate returned converts back to the nominal rate.
TangentRoundTrip ==
    ReturnsClose(Tangent_to_nominal(result.value), call.value, result.value)

\* The tangent-effective rate of the nominal rate converts to the
\* secant-effective rate returned.
TangentToSecantAgrees ==
    FLt(Nominal_to_tangent_effective(call.value).value, One) =>
        ReturnsClose(Tangent_to_secant_effective(
                         Nominal_to_tangent_effective(call.value).value, call.exponent),
                     result.value,
                     Nominal_to_tangent_effective(call.value).value)

C16_NegativeBase ==
    /\ SecantBelowOne
    /\ FLt(mul_add(call.value, call.exponent, One), Zero(0))
    /\ ~SecantRoundTrip

\* x is y up to rounding: within four units in the last place of y, or within
\* the spacing of the subnormal numbers.
CloseTo(x, y) ==
    \/ x = y
    \/ /\ is_finite(x)
       /\ is_finite(y)
       /\ \/ FLe(abs(FSub(x, y)), FMul(Dyadic(1, 2 - PrecisionBits), abs(y)))
          \/ FLe(abs(FSub(x, y)), Dyadic(1, EMin + 10))

\* 365.25, the days of an average year.
DaysPerYear == Dyadic(1461, -2)

\* A quantity was converted between time units: a time (to_unit), a
\* production rate or a nominal decline rate (From).
UnitConverted(model) ==
    /\ pc = "converted"
    /\ call.model = model
    /\ call.ctor \in {"to_unit", "from"}

\* The conversion kept the precision of its argument: the result is not
\* below the normal range unless the argument is zero.
KeptPrecision ==
    \/ ~is_finite(call.value)
    \/ call.value \in {Zero(0), Zero(1)}
    \/ FGe(abs(result.value), Dyadic(1, EMin + PrecisionBits - 1))

\* The durations a converted rate is multiplied by.
FiniteDurations == {d \in DurationSamples : is_finite(d)}

\* C17: a time converts by value * source.LENGTH / target.LENGTH (years to
\* days multiplies by 365.25), a ProductionRate and a NominalDeclineRate by
\* the reciprocal factor (years to days divides by 365.25), so that rate *
\* duration and decline rate * duration are the same after converting both
\* operands; converting the result back gives the original value (both up to
\* rounding, for a conversion that does not underflow).
C17_UnitsConsistent ==
    /\ UnitConverted("Time") =>
           /\ result.value = FDiv(FMul(call.value, LENGTH(call.unit)),
                                  LENGTH(call.other))
           /\ call.unit = "AverageYearsTime" /\ call.other = "AverageDaysTime" =>
                  result.value = FMul(call.value, DaysPerYear)
           /\ KeptPrecision =>
                  CloseTo(to_unit(result.value, call.other, call.unit), call.value)
    /\ UnitConverted("ProductionRate") \/ UnitConverted("NominalDeclineRate") =>
           /\ result.value = FDiv(FMul(call.value, LENGTH(call.other)),
                                  LENGTH(call.unit))
           /\ call.unit = "AverageYearsTime" /\ call.other = "AverageDaysTime" =>
                  result.value = FDiv(call.value, DaysPerYear)
           /\ \A d \in FiniteDurations :
                  KeptPrecision =>
                  CloseTo(FMul(result.value, to_unit(d, call.unit, call.other)),
                          FMul(call.value, d))
    /\ UnitConverted("ProductionRate") /\ KeptPrecision =>
           CloseTo(ProductionRate_from(result.value, call.other, call.unit), call.value)
    /\ UnitConverted("NominalDeclineRate") /\ KeptPrecision =>
           CloseTo(Nominal_to_time(result.value, call.other, call.unit), call.value)

\* C17 is exercised: a positive production rate per year was converted to a
\* rate per day, which is smaller.
C17_Witness ==
    /\ UnitConverted("ProductionRate")
    /\ call.unit = "AverageYearsTime"
    /\ call.other = "AverageDaysTime"
    /\ call.value = FromInt(100)
    /\ FLt(result.value, One)
    /\ FGt(result.value, Zero(0))

\* C17, the other quantities: a time in years was converted to days, a
\* nominal decline rate per day to one per year.
C17_TimeConverted ==
    /\ UnitConverted("Time")
    /\ call.unit = "AverageYearsTime"
    /\ call.other = "AverageDaysTime"
    /\ call.value = One
    /\ result.value = DaysPerYear

C17_DeclineRateConverted ==
    /\ UnitConverted("NominalDeclineRate")
    /\ call.unit = "AverageDaysTime"
    /\ call.value = One
    /\ result.value = DaysPerYear

\* A from_incremental_volume call of any model returned a segment.
VolumeSegmentReturned ==
    /\ pc = "constructed"
    /\ call.ctor = "from_incremental_volume"
    /\ ReturnedSegment

\* The initial rate and the initial decline rate of the call (a flat segment
\* has a rate and no decline).
CallRate == IF call.model = "Flat" THEN call.rate ELSE call.initial_rate

CallDecline ==
    IF call.model \in {"Linear", "Exponential"} THEN call.decline_rate
    ELSE IF call.model = "Flat" THEN Inf(0)
    ELSE call.initial_decline_rate

\* The scale of the volumes of a segment: qi/|Di| + 2V (2V for a flat one).
VolumeScale(rate, decline, volume) ==
    FAdd(FDiv(rate, abs(decline)), FMul(Two, volume))

\* How much the volume formula magnifies a rounding error of the duration:
\* 1 + |Di| * t for the exponential and hyperbolic forms, and again 1 + 1/|b|
\* for the power of the hyperbolic form.
VolumeCondition(model, decline, duration, exponent) ==
    IF model = "Exponential" THEN FAdd(One, FMul(abs(decline), duration))
    ELSE IF model = "Hyperbolic"
    THEN FMul(FAdd(One, FMul(abs(decline), duration)),
              FAdd(One, FDiv(One, abs(exponent))))
    ELSE One

\* Floating tolerance on a reproduced volume: eight units in the last place
\* of the scale, magnified by the condition of the form, plus EPSILON (below
\* which a volume is taken as zero).
RoundTripTolerance ==
    FAdd(FMul(FMul(Dyadic(1, 3 - PrecisionBits),
                   VolumeScale(CallRate, CallDecline, call.incremental_volume)),
              VolumeCondition(call.model, CallDecline,
                              result.seg.incremental_duration,
                              IF call.model = "Hyperbolic" THEN call.exponent ELSE One)),
         EPSILON)

RoundTripError ==
    abs(FSub(Segment_incremental_volume(result.seg), call.incremental_volume))

\* 0.5 * Di * qi, the coefficient of the linear volume formula, overflows.
LinearCoefficientOverflows ==
    /\ call.model = "Linear"
    /\ ~is_finite(FMul(FMul(Dyadic(1, -1), call.decline_rate), call.initial_rate))

\* C18: whenever from_incremental_volume(..., v) of Flat, Linear, Exponential,
\* Harmonic or Hyperbolic returns a segment, incremental_volume() of that
\* segment reproduces v within floating tolerance.
C18_VolumeReproduced ==
    VolumeSegmentReturned => FLe(RoundTripError, RoundTripTolerance)

\* C18, the part that holds: the volume is reproduced by every segment
\* except a linear one whose coefficient 0.5 * Di * qi overflows.
C18_VolumeReproducedWithoutOverflow ==
    VolumeSegmentReturned /\ ~LinearCoefficientOverflows =>
        FLe(RoundTripError, RoundTripTolerance)

\* C18 fails here: Linear::from_incremental_volume took a volume that is
\* effectively zero, returned a segment without evaluating it, and the
\* segment's incremental_volume() is NaN.
C18_Witness ==
    /\ VolumeSegmentReturned
    /\ call.model = "Linear"
    /\ is_effectively_zero(call.incremental_volume)
    /\ result.seg.incremental_duration = Zero(0)
    /\ is_nan(Linear_incremental_volume(result.seg))

\* C18, the ordinary case: a hyperbolic segment of positive duration
\* reproduces a volume of 50 within 2 percent.
C18_HyperbolicReproduced ==
    /\ VolumeSegmentReturned
    /\ call.model = "Hyperbolic"
    /\ call.incremental_volume = FromInt(50)
    /\ FGt(result.seg.incremental_duration, Zero(0))
    /\ FLe(RoundTripError, One)

\* A from_incremental_duration call of any segment type returned a segment.
DurationSegmentReturned ==
    /\ pc = "constructed"
    /\ call.ctor = "from_incremental_duration"
    /\ ReturnedSegment

\* The arguments of a constructor call: its fields but the constructor name.
Arguments == DOMAIN call \ {"ctor"}

\* C19: a successful from_incremental_duration(..., d) of any segment type
\* stores its arguments unchanged: incremental_duration() is exactly d, and
\* initial_rate()/rate(), decline_rate()/initial_decline_rate() and
\* exponent() are exactly the values passed in.
C19_ArgumentsStored ==
    DurationSegmentReturned =>
        /\ result.seg.incremental_duration = call.incremental_duration
        /\ DOMAIN result.seg = Arguments
        /\ \A field \in Arguments : result.seg[field] = call[field]

\* C19 is exercised: a hyperbolic segment was built from a duration of 4
\* with exponent 1/2.
C19_Witness ==
    /\ DurationSegmentReturned
    /\ call.model = "Hyperbolic"
    /\ call.incremental_duration = FromInt(4)
    /\ call.exponent = Dyadic(1, -1)
    /\ result.seg.exponent = Dyadic(1, -1)
    /\ result.seg.incremental_duration = FromInt(4)

\* C19, an incline: an exponential segment keeps the sign of its decline rate.
C19_InclineStored ==
    /\ DurationSegmentReturned
    /\ call.model = "Exponential"
    /\ FLt(call.decline_rate, Zero(0))
    /\ result.seg.decline_rate = call.decline_rate

\* The complaint of validate_positive about the value of the given name.
RefusedAsNegative(name) ==
    /\ ReturnedError("InvalidInput")
    /\ result.reason = <<name, "is negative, but expected a positive number">>

\* A constructor was given -0.0 where validate_positive is the first check:
\* the rate of a flat segment, or the duration of a delay.
NegativeZeroRate ==
    /\ pc = "constructed"
    /\ call.model = "Flat"
    /\ call.rate = Zero(1)

NegativeZeroDelay ==
    /\ pc = "constructed"
    /\ call.model = "Delay"
    /\ call.ctor = "from_incremental_duration"
    /\ call.incremental_duration = Zero(1)

\* from_incremental_duration of any segment type was given a duration of -0.0.
NegativeZeroDuration ==
    /\ pc = "constructed"
    /\ call.ctor = "from_incremental_duration"
    /\ call.incremental_duration = Zero(1)

\* C20: validate_positive, the check of durations and of the flat rate,
\* accepts negative zero: -0.0 is taken as non-negative and not refused.
C20_NegativeZeroAccepted ==
    /\ NegativeZeroRate => ~RefusedAsNegative("rate")
    /\ NegativeZeroDelay => ReturnedSegment

\* C20 as the code has it: validate_positive refuses every value with the
\* sign bit set, -0.0 included, as negative; +0.0 passes.
C20_NegativeZeroRefused ==
    /\ NegativeZeroRate => RefusedAsNegative("rate")
    /\ NegativeZeroDelay => RefusedAsNegative("duration")
    /\ NegativeZeroDuration => ~ReturnedSegment
    /\ pc = "constructed" /\ call.model = "Delay" /\ call.incremental_duration = Zero(0) =>
           ReturnedSegment
    /\ pc = "constructed" /\ call.model = "Flat" /\ call.rate = Zero(0) =>
           ~RefusedAsNegative("rate")

\* C20 is exercised: a delay of -0.0 was refused as negative.
C20_Witness ==
    /\ NegativeZeroDelay
    /\ RefusedAsNegative("duration")

\* C20, the flat rate: a rate of -0.0 was refused as negative, and a flat
\* segment with a rate of +0.0 was returned.
C20_NegativeZeroRateRefused ==
    /\ NegativeZeroRate
    /\ RefusedAsNegative("rate")

C20_PositiveZeroRateAccepted ==
    /\ ReturnedSegment
    /\ call.model = "Flat"
    /\ call.rate = Zero(0)

\* A constructor of FlatParameters was called / returned a segment.
FlatCalled(ctor) ==
    /\ pc = "constructed"
    /\ call.model = "Flat"
    /\ call.ctor = ctor

FlatReturned ==
    /\ ReturnedSegment
    /\ call.model = "Flat"
    /\ call.ctor \in {"from_incremental_duration", "from_incremental_volume"}

\* C21: every Flat segment returned by from_incremental_duration or
\* from_incremental_volume has a nonzero rate (rate() > 0): a Flat segment
\* with rate 0 cannot be constructed.
C21_FlatRateNonZero ==
    FlatReturned => FGt(result.seg.rate, Zero(0))

\* C21 as the code has it: the rate of a returned Flat segment is finite and
\* carries no negative sign, and +0.0 is a rate the constructors take:
\* from_incremental_duration with any valid duration, from_incremental_volume
\* with a volume that is effectively zero.
C21_FlatRateNotNegative ==
    /\ FlatReturned =>
           /\ is_finite(result.seg.rate)
           /\ is_sign_positive(result.seg.rate)
           /\ result.seg.rate = call.rate
    /\ FlatCalled("from_incremental_duration") /\ call.rate = Zero(0)
       /\ ~IsErr(validate_duration(call.unit, call.incremental_duration)) =>
           ReturnedSegment /\ result.seg.rate = Zero(0)
    /\ FlatCalled("from_incremental_volume") /\ call.rate = Zero(0)
       /\ ~IsErr(validate_incremental_volume(call.incremental_volume))
       /\ is_effectively_zero(call.incremental_volume) =>
           ReturnedSegment /\ result.seg.rate = Zero(0)

\* C21 is exercised: a Flat segment with rate 0 and a positive duration was
\* returned by from_incremental_duration.
C21_Witness ==
    /\ FlatReturned
    /\ call.ctor = "from_incremental_duration"
    /\ result.seg.rate = Zero(0)
    /\ FGt(result.seg.incremental_duration, Zero(0))

\* C21, the test zero_duration_from_zero_volume: rate 0 and volume 0 give a
\* segment of duration 0.
C21_ZeroRateFromZeroVolume ==
    /\ FlatReturned
    /\ call.ctor = "from_incremental_volume"
    /\ call.rate = Zero(0)
    /\ call.incremental_volume = Zero(0)
    /\ result.seg.incremental_duration = Zero(0)

\* Flat::from_incremental_volume was called with a valid rate and volume:
\* both finite and not sign-negative.
FlatVolumeInputsValid ==
    /\ FlatCalled("from_incremental_volume")
    /\ is_finite(call.rate)
    /\ is_sign_positive(call.rate)
    /\ is_finite(call.incremental_volume)
    /\ is_sign_positive(call.incremental_volume)

\* volume / rate, and the same in years.
FlatSolvedDuration == FDiv(call.incremental_volume, call.rate)

FlatSolvedYears == to_unit(FlatSolvedDuration, call.unit, "AverageYearsTime")

\* C22: Flat::from_incremental_volume with a valid rate and volume returns a
\* segment of duration 0 when the volume is at most 1e-12, whatever the rate
\* (even 0); otherwise CannotSolveDecline when the rate is at most 1e-12;
\* otherwise the duration is volume / rate, refused when it is above 1000 years
\* (or not finite).
C22_FlatVolumeCases ==
    FlatVolumeInputsValid =>
        IF FLe(call.incremental_volume, EPSILON)
        THEN /\ ReturnedSegment
             /\ result.seg.incremental_duration = Zero(0)
             /\ result.seg.rate = call.rate
        ELSE IF FLe(call.rate, EPSILON)
        THEN ReturnedError("CannotSolveDecline")
        ELSE IF ~is_finite(FlatSolvedDuration)
        THEN ReturnedError("InvalidInput")
        ELSE IF FGt(FlatSolvedYears, MAX_DURATION_YEARS)
        THEN ReturnedError("DurationTooLong")
        ELSE /\ ReturnedSegment
             /\ result.seg.incremental_duration = FlatSolvedDuration
             /\ result.seg.rate = call.rate

\* C22 is exercised: a volume of 100 at a rate of 50 gave a duration of 2.
C22_Witness ==
    /\ FlatVolumeInputsValid
    /\ call.rate = FromInt(50)
    /\ call.incremental_volume = FromInt(100)
    /\ ReturnedSegment
    /\ result.seg.incremental_duration = Two

\* C22, the other cases: a rate of 0 with a volume below 1e-12 that is not 0,
\* a rate of 0 with a volume of 100, and a duration above 1000 years.
C22_ZeroRateTinyVolume ==
    /\ FlatVolumeInputsValid
    /\ call.rate = Zero(0)
    /\ call.incremental_volume = Tiny
    /\ ReturnedSegment
    /\ result.seg.incremental_duration = Zero(0)

C22_ZeroRateUnsolvable ==
    /\ FlatVolumeInputsValid
    /\ call.rate = Zero(0)
    /\ call.incremental_volume = FromInt(100)
    /\ ReturnedError("CannotSolveDecline")

C22_TooLong ==
    /\ FlatVolumeInputsValid
    /\ FGt(call.rate, EPSILON)
    /\ ReturnedError("DurationTooLong")

\* The initial and the final decline rate of a from_final_decline_rate call
\* have opposite signs.
OppositeDeclineSigns ==
    \/ FGt(call.initial_decline_rate, Zero(0)) /\ FLt(call.final_decline_rate, Zero(0))
    \/ FLt(call.initial_decline_rate, Zero(0)) /\ FGt(call.final_decline_rate, Zero(0))

\* C23: Harmonic::from_final_decline_rate and Hyperbolic::from_final_decline_rate
\* (with an exponent that passes validation) return CannotSolveDecline
\* whenever the initial and final decline rates are both valid and have
\* opposite signs.
C23_OppositeSignsUnsolvable ==
    FinalDeclineRateInputsValid /\ OppositeDeclineSigns =>
        ReturnedError("CannotSolveDecline")

\* C23 is exercised: a harmonic decline was asked to end as an incline.
C23_Witness ==
    /\ FinalDeclineRateInputsValid
    /\ call.model = "Harmonic"
    /\ FGt(call.initial_decline_rate, Zero(0))
    /\ FLt(call.final_decline_rate, Zero(0))
    /\ ReturnedError("CannotSolveDecline")

\* C23, the other model and direction: a hyperbolic incline was asked to end
\* as a decline.
C23_HyperbolicInclineUnsolvable ==
    /\ FinalDeclineRateInputsValid
    /\ call.model = "Hyperbolic"
    /\ FLt(call.initial_decline_rate, Zero(0))
    /\ FGt(call.final_decline_rate, Zero(0))
    /\ ReturnedError("CannotSolveDecline")

\* A from_final_decline_rate call with valid inputs, a true decline (Di > 0),
\* and a final decline rate larger than the initial one.
GrowingDecline ==
    /\ FinalDeclineRateInputsValid
    /\ FGt(call.initial_decline_rate, Zero(0))
    /\ FGt(call.final_decline_rate, call.initial_decline_rate)

\* The duration Harmonic::from_final_decline_rate solves: 1/Df - 1/Di.
HarmonicSolvedDuration ==
    FSub(FDiv(One, call.final_decline_rate), FDiv(One, call.initial_decline_rate))

\* C24: for a true decline (Di > 0), from_final_decline_rate never returns a
\* segment when the final decline rate is larger than Di: Hyperbolic (b > 0)
\* returns CannotSolveDecline, Harmonic returns InvalidInput because the
\* solved duration 1/Df - 1/Di is negative.
C24_GrowingDeclineRefused ==
    GrowingDecline =>
        /\ ~ReturnedSegment
        /\ call.model = "Hyperbolic" => ReturnedError("CannotSolveDecline")
        /\ call.model = "Harmonic" =>
               /\ ReturnedError("InvalidInput")
               /\ result.reason = <<"duration", "is negative, but expected a positive number">>

\* C24, the part that holds: Hyperbolic always refuses, and Harmonic refuses
\* whenever the rounded reciprocals of the two decline rates differ.
C24_GrowingDeclineRefusedUnlessRoundedAway ==
    GrowingDecline =>
        /\ call.model = "Hyperbolic" => ReturnedError("CannotSolveDecline")
        /\ call.model = "Harmonic" =>
               IF IsZero(HarmonicSolvedDuration)
               THEN ReturnedSegment /\ result.seg.incremental_duration = Zero(0)
               ELSE /\ ReturnedError("InvalidInput")
                    /\ result.reason = <<"duration", "is negative, but expected a positive number">>

\* C24 fails here: the final decline rate is larger than the initial one by
\* one unit in the last place, 1/Df - 1/Di rounds to +0.0, and Harmonic
\* returns a segment of duration 0.
C24_Witness ==
    /\ GrowingDecline
    /\ call.model = "Harmonic"
    /\ ReturnedSegment
    /\ result.seg.incremental_duration = Zero(0)

\* C24, the ordinary cases: Harmonic refuses Di = 1/2, Df = 2 with a negative
\* duration; Hyperbolic refuses the decline rates one unit apart.
C24_HarmonicRefused ==
    /\ GrowingDecline
    /\ call.model = "Harmonic"
    /\ call.initial_decline_rate = Dyadic(1, -1)
    /\ call.final_decline_rate = Two
    /\ ReturnedError("InvalidInput")

C24_HyperbolicRefused ==
    /\ GrowingDecline
    /\ call.model = "Hyperbolic"
    /\ FGt(call.initial_decline_rate, One)
    /\ FLt(call.final_decline_rate, Two)
    /\ ReturnedError("CannotSolveDecline")

\* The callers that hold a value an evaluator returned.
Answered == {caller \in Callers : pc[caller] = "returned"}

\* One step of the callers of a shared segment: the segment and the call that
\* built it stay as they are, every value held is the evaluator's value on
\* the segment as constructed, and two callers that asked the same thing hold
\* the same value.
SegmentKept ==
    /\ result' = result
    /\ call' = call
    /\ result'.seg = Invoke(call).seg
    /\ \A caller \in {c \in Callers : pc'[c] = "returned"} :
           /\ query'[caller].value = EvaluationOf(Invoke(call).seg, query'[caller])
           /\ \A other \in {c \in Callers : pc'[c] = "returned"} :
                  /\ query'[other].op = query'[caller].op
                  /\ "time" \in DOMAIN query'[caller] =>
                         query'[other].time = query'[caller].time
                  => query'[other].value = query'[caller].value

\* C25: evaluation never mutates a segment: through any sequence and any
\* interleaving across callers of rate_at_time, incremental_volume_at_time,
\* final_rate and incremental_volume calls, the parameters of the segment are
\* unchanged and each evaluator returns the same value for the same time
\* whatever calls came before.
C25_EvaluationNeverMutates == [][SegmentKept]_vars

\* C25 is exercised: on a hyperbolic segment one caller holds the rate past
\* the duration while the other is inside incremental_volume_at_time.
C25_Witness ==
    /\ DOMAIN pc = Callers
    /\ call.model = "Hyperbolic"
    /\ pc[1] = "returned"
    /\ query[1].op = "rate_at_time"
    /\ FGt(query[1].time, result.seg.incremental_duration)
    /\ pc[2] = "running"
    /\ query[2].op = "incremental_volume_at_time"
    /\ result.seg.incremental_duration = call.incremental_duration

\* C25, both callers served: they asked for the same rate and hold the same
\* value.
C25_SameAnswer ==
    /\ DOMAIN pc = Callers
    /\ Answered = Callers
    /\ query[1].op = "rate_at_time"
    /\ query[2] = query[1]

\* A constructor of HyperbolicParameters has returned.
HyperbolicCalled == Returned /\ call.model = "Hyperbolic"

\* The verdict on the third input of a Hyperbolic constructor call: the
\* duration, the volume, the final rate or the final decline rate.
ThirdInputVerdict(c) ==
    CASE c.ctor = "from_incremental_duration" ->
             validate_duration(c.unit, c.incremental_duration)
      [] c.ctor = "from_incremental_volume" ->
             validate_incremental_volume(c.incremental_volume)
      [] c.ctor = "from_final_rate" ->
             validate_non_zero_positive_rate(c.final_rate, "final rate")
      [] c.ctor = "from_final_decline_rate" ->
             validate_non_zero_decline_rate(c.final_decline_rate, "final decline rate")

\* The first complaint among the four, in the order initial rate, initial
\* decline rate, third input, exponent; Ok when all four pass.
FirstVerdict(c) ==
    Try(validate_non_zero_positive_rate(c.initial_rate, "initial rate"),
    Try(validate_non_zero_decline_rate(c.initial_decline_rate, "initial decline rate"),
    Try(ThirdInputVerdict(c),
        validate_hyperbolic_exponent(c.exponent, c.initial_decline_rate))))

\* The exponent is in range but its sign differs from that of the initial
\* decline rate.
ExponentSignMismatch ==
    ExponentVerdict(call.exponent, call.initial_decline_rate) = "DeclineRateWrongSign"

\* C26: every Hyperbolic constructor validates in the order initial rate,
\* initial decline rate, third input, exponent and reports the first failure:
\* a duration above 1000 years with an exponent of the wrong sign yields
\* DurationTooLong, and in from_final_decline_rate an exponent of the wrong
\* sign yields DeclineRateWrongSign even when the final decline rate's sign
\* differs from the initial one.
C26_HyperbolicValidationOrder ==
    HyperbolicCalled =>
        /\ IsErr(FirstVerdict(call)) => result = FirstVerdict(call)
        /\ /\ call.ctor = "from_incremental_duration"
           /\ ~IsErr(validate_non_zero_positive_rate(call.initial_rate, "initial rate"))
           /\ ~IsErr(validate_non_zero_decline_rate(call.initial_decline_rate,
                                                    "initial decline rate"))
           /\ is_finite(call.incremental_duration)
           /\ FGt(to_unit(call.incremental_duration, call.unit, "AverageYearsTime"),
                  MAX_DURATION_YEARS)
           /\ ExponentSignMismatch
           => ReturnedError("DurationTooLong")
        /\ /\ call.ctor = "from_final_decline_rate"
           /\ ~IsErr(validate_non_zero_positive_rate(call.initial_rate, "initial rate"))
           /\ ~IsErr(validate_non_zero_decline_rate(call.initial_decline_rate,
                                                    "initial decline rate"))
           /\ ~IsErr(validate_non_zero_decline_rate(call.final_decline_rate,
                                                    "final decline rate"))
           /\ OppositeDeclineSigns
           /\ ExponentSignMismatch
           => ReturnedError("DeclineRateWrongSign")

\* C26 is exercised: a duration above 1000 years came with an exponent of the
\* wrong sign, and the duration was the complaint.
C26_Witness ==
    /\ HyperbolicCalled
    /\ call.ctor = "from_incremental_duration"
    /\ ~IsErr(validate_non_zero_positive_rate(call.initial_rate, "initial rate"))
    /\ FGt(call.initial_decline_rate, Zero(0))
    /\ call.exponent = Dyadic(-1, -1)
    /\ ReturnedError("DurationTooLong")

\* C26, from_final_decline_rate: both the exponent and the final decline
\* rate have the sign the initial decline rate has not, and the exponent was
\* the complaint.
C26_WrongSignBeforeUnsolvable ==
    /\ HyperbolicCalled
    /\ call.ctor = "from_final_decline_rate"
    /\ OppositeDeclineSigns
    /\ ExponentSignMismatch
    /\ ReturnedError("DeclineRateWrongSign")

\* The field of a call record that a name in an InvalidInput reason speaks of.
FieldNamed(name) ==
    CASE name = "rate" -> "rate"
      [] name = "initial rate" -> "initial_rate"
      [] name = "final rate" -> "final_rate"
      [] name = "decline rate" -> "decline_rate"
      [] name = "initial decline rate" -> "initial_decline_rate"
      [] name = "final decline rate" -> "final_decline_rate"
      [] name = "duration" -> "incremental_duration"
      [] name = "incremental volume" -> "incremental_volume"
      [] name = "exponent" -> "exponent"
      [] OTHER -> "none"

NotANumber == "is not-a-number, but expected a finite number"

Infinity == "is infinity, but expected a finite number"

\* A constructor refused with InvalidInput, naming one of its arguments.
ArgumentRefused ==
    /\ ReturnedError("InvalidInput")
    /\ FieldNamed(result.reason[1]) \in DOMAIN call

RefusedArgument == call[FieldNamed(result.reason[1])]

\* C27: in every validation the finiteness check comes before the sign or
\* zero check: NaN is reported as '<name> is not-a-number ...', +infinity and
\* -infinity as '<name> is infinity ...'; a -infinity volume, rate or duration
\* is never reported as negative.
C27_FinitenessFirst ==
    /\ ArgumentRefused =>
           IF is_nan(RefusedArgument) THEN result.reason[2] = NotANumber
           ELSE IF is_infinite(RefusedArgument) THEN result.reason[2] = Infinity
           ELSE result.reason[2] \notin {NotANumber, Infinity}
    /\ Returned /\ call.model = "Delay" /\ ~is_finite(call.incremental_duration) =>
           result = validate_finite(call.incremental_duration, "duration")
    /\ Returned /\ call.model = "Flat" /\ ~is_finite(call.rate) =>
           result = validate_finite(call.rate, "rate")

\* C27 is exercised: a duration of -infinity was refused as infinity.
C27_Witness ==
    /\ ArgumentRefused
    /\ result.reason[1] = "duration"
    /\ RefusedArgument = Inf(1)
    /\ result.reason[2] = Infinity

\* C27, other arguments: a volume of -infinity, a rate of -infinity and a
\* NaN exponent.
C27_NegativeInfiniteVolume ==
    /\ ArgumentRefused
    /\ result.reason[1] = "incremental volume"
    /\ RefusedArgument = Inf(1)
    /\ result.reason[2] = Infinity

C27_NegativeInfiniteRate ==
    /\ ArgumentRefused
    /\ result.reason[1] = "initial rate"
    /\ RefusedArgument = Inf(1)
    /\ result.reason[2] = Infinity

C27_NaNExponent ==
    /\ ArgumentRefused
    /\ result.reason[1] = "exponent"
    /\ is_nan(RefusedArgument)
    /\ result.reason[2] = NotANumber

\* Linear::from_final_rate returned for a decline rate within EPSILON of zero.
LinearFinalRateZeroDecline ==
    /\ Returned
    /\ call.model = "Linear"
    /\ call.ctor = "from_final_rate"
    /\ is_finite(call.decline_rate)
    /\ is_effectively_zero(call.decline_rate)

ApproximatelyZeroDecline ==
    InvalidInput("decline rate", "is approximately zero, but expected it to be non-zero")

\* C28: Linear::from_final_rate with an approximately zero decline rate
\* returns InvalidInput whether or not the two rates are equal, never
\* CannotSolveDecline and never a segment; once the initial rate is valid the
\* complaint is 'decline rate is approximately zero'.
C28_ZeroDeclineBranchUnreachable ==
    LinearFinalRateZeroDecline =>
        /\ ReturnedError("InvalidInput")
        /\ ~IsErr(validate_non_zero_positive_rate(call.initial_rate, "initial rate")) =>
               result = ApproximatelyZeroDecline

\* C28 is exercised: equal valid rates with a zero decline rate were refused
\* for the decline rate.
C28_Witness ==
    /\ LinearFinalRateZeroDecline
    /\ call.initial_rate = FromInt(100)
    /\ call.final_rate = FromInt(100)
    /\ call.decline_rate = Zero(0)
    /\ result = ApproximatelyZeroDecline

\* C28, different rates: refused for the decline rate as well.
C28_DifferentRates ==
    /\ LinearFinalRateZeroDecline
    /\ call.initial_rate = FromInt(100)
    /\ call.final_rate = FromInt(50)
    /\ call.decline_rate = Tiny
    /\ result = ApproximatelyZeroDecline

\* A Linear constructor returned a segment.
LinearSegmentReturned == ReturnedSegment /\ call.model = "Linear"

\* What from_incremental_duration answers for the fields of the segment.
LinearRebuilt ==
    Linear_from_incremental_duration(result.seg.unit, result.seg.initial_rate,
                                     result.seg.decline_rate,
                                     result.seg.incremental_duration)

\* C29: every Linear segment returned by from_incremental_duration,
\* from_incremental_volume or from_final_rate has a strictly positive
\* final_rate(); from_incremental_duration accepts its initial rate, decline
\* rate and duration.
C29_LinearFinalRatePositive ==
    LinearSegmentReturned =>
        /\ ~IsErr(validate_non_zero_positive_rate(Linear_final_rate(result.seg),
                                                  "final rate"))
        /\ LinearRebuilt = result

\* C29 for from_incremental_duration alone, which checks the final rate.
C29_CheckedByDuration ==
    LinearSegmentReturned /\ call.ctor = "from_incremental_duration" =>
        ~IsErr(validate_non_zero_positive_rate(Linear_final_rate(result.seg),
                                               "final rate"))

\* C29, what the other two constructors keep: the final rate is never
\* negative and never NaN.
C29_LinearFinalRateNotNegative ==
    LinearSegmentReturned =>
        /\ ~is_nan(Linear_final_rate(result.seg))
        /\ ~FLt(Linear_final_rate(result.seg), Zero(0))

\* C29 is exercised: from_incremental_volume solved the largest volume the
\* decline can produce, where the rate reaches zero, and returned a segment
\* that from_incremental_duration refuses.
C29_Witness ==
    /\ LinearSegmentReturned
    /\ call.ctor = "from_incremental_volume"
    /\ call.initial_rate = FromInt(100)
    /\ call.decline_rate = Dyadic(1, -1)
    /\ call.incremental_volume = FromInt(100)
    /\ result.seg.incremental_duration = Two
    /\ Linear_final_rate(result.seg) = Zero(0)
    /\ LinearRebuilt =
           InvalidInput("final rate", "is negative or zero, but expected a positive number")

\* A Hyperbolic constructor returned a segment.
HyperbolicSegmentReturned == ReturnedSegment /\ call.model = "Hyperbolic"

\* The times sampled inside the segment, from 0 to its duration.
TimesInside(self) ==
    {time \in TimeSamples(self) :
        FGe(time, Zero(0)) /\ FLe(time, self.incremental_duration)}

\* The base 1 + b * Di * t as rate_at_time and incremental_volume_at_time
\* compute it.
HyperbolicBase(self, time) ==
    mul_add(time, FMul(self.exponent, self.initial_decline_rate), One)

\* C30: every Hyperbolic segment a constructor returns has its exponent b and
\* its initial decline rate Di of the same sign (b * Di > 0), b away from 0
\* and from 1 by more than EPSILON and |b| <= 100; so the base 1 + b * Di * t
\* of the hyperbolic formulas is at least 1 for the times from 0 to the
\* duration of the segment.
C30_HyperbolicBaseAtLeastOne ==
    HyperbolicSegmentReturned =>
        /\ is_finite(result.seg.exponent)
        /\ is_finite(result.seg.initial_decline_rate)
        /\ is_sign_positive(result.seg.exponent)
               = is_sign_positive(result.seg.initial_decline_rate)
        /\ FGt(FMul(result.seg.exponent, result.seg.initial_decline_rate), Zero(0))
        /\ ~is_effectively_zero(result.seg.exponent)
        /\ ~is_effectively_zero(FSub(result.seg.exponent, One))
        /\ FLe(abs(result.seg.exponent), MAX_EXPONENT)
        /\ \A time \in TimesInside(result.seg) :
               FGe(HyperbolicBase(result.seg, time), One)

\* C30 is exercised: a declining segment with b = 1/2 whose base at the end
\* of the segment is above 1.
C30_Witness ==
    /\ HyperbolicSegmentReturned
    /\ result.seg.exponent = Dyadic(1, -1)
    /\ FGt(result.seg.initial_decline_rate, Zero(0))
    /\ result.seg.incremental_duration \in TimesInside(result.seg)
    /\ FGt(HyperbolicBase(result.seg, result.seg.incremental_duration), One)

\* C30, incline: a negative exponent with a negative decline rate.
C30_Incline ==
    /\ HyperbolicSegmentReturned
    /\ result.seg.exponent = Dyadic(-1, -1)
    /\ FLt(result.seg.initial_decline_rate, Zero(0))
    /\ FGt(HyperbolicBase(result.seg, result.seg.incremental_duration), One)

\* C30, the largest exponent: b = 100 is accepted.
C30_LargestExponent ==
    /\ HyperbolicSegmentReturned
    /\ result.seg.exponent = FromInt(100)

====
